---------------------------- MODULE Spec2Model ----------------------------
(***************************************************************************)
(* DomainSentry risk engine (backend/app/risk_engine.py) and the service   *)
(* scorer (backend/app/services/risk_service.py).                          *)
(*                                                                         *)
(* Representation.                                                         *)
(*   - A string is a sequence of one-character strings.                    *)
(*   - A component score is an integer number of hundredths (0.95 is 95).  *)
(*   - A weight is an integer number of ten-thousandths (0.15 is 1500).    *)
(*   - The Mode A aggregate is carried in units of 10^-8 until it is       *)
(*     rounded to four decimals (units of 10^-4) for the result.           *)
(*   - Entropy is carried as n*H in millionths of a bit (n the length of   *)
(*     the text), so that the comparisons with 2.0, 4.0 and 4.5 need no    *)
(*     division.                                                           *)
(*   - datetime values are whole days on one time line; NoDate is None.    *)
(*   Arithmetic is exact decimal arithmetic, not IEEE double arithmetic:   *)
(*   where the exact aggregate lies on a rounding tie or on a threshold    *)
(*   the double the code computes may fall on either side of it.           *)
(***************************************************************************)
EXTENDS Integers, Sequences, FiniteSets, TLC

VARIABLES
    configSource,   \* what the config path given to RiskEngine() points at
    engine,         \* the RiskEngine object: its state and immutable-by-use fields
    weights,        \* the dict object self.weights refers to (mutated in place)
    now,            \* the clock datetime.utcnow() reads
    ret,            \* what the last call handed to its caller (still held by it)
    prev,           \* what the call before it returned, where a caller keeps both
    db,             \* the database of the service: the domains and domain_scans tables
    threads         \* the calls of calculate_overall_risk in flight, one per thread

vars ==
    <<configSource, engine, weights, now, ret, prev, db, threads>>

-----------------------------------------------------------------------------
(* Bounds of the model. *)

MaxNow ==
    1

MaxBatch ==
    2

\* the number of analyses the service runs
MaxScans ==
    2

\* the number of threads that call calculate_overall_risk on the one engine
MaxThreads ==
    2

-----------------------------------------------------------------------------
(* Strings. *)

\* the lower-case letter of each upper-case ASCII letter
LowerOf ==
    ("A" :> "a") @@ ("B" :> "b") @@ ("C" :> "c") @@ ("D" :> "d") @@ ("E" :> "e") @@ ("F" :> "f")
    @@ ("G" :> "g") @@ ("H" :> "h") @@ ("I" :> "i") @@ ("J" :> "j") @@ ("K" :> "k") @@ ("L" :> "l")
    @@ ("M" :> "m") @@ ("N" :> "n") @@ ("O" :> "o") @@ ("P" :> "p") @@ ("Q" :> "q") @@ ("R" :> "r")
    @@ ("S" :> "s") @@ ("T" :> "t") @@ ("U" :> "u") @@ ("V" :> "v") @@ ("W" :> "w") @@ ("X" :> "x")
    @@ ("Y" :> "y") @@ ("Z" :> "z")

\* str.lower() on one character
LowerChar(c) ==
    IF c \in DOMAIN LowerOf THEN LowerOf[c] ELSE c

RECURSIVE Lower(_)
\* str.lower()
Lower(s) ==
    IF s = <<>> THEN <<>> ELSE <<LowerChar(Head(s))>> \o Lower(Tail(s))

\* the positions of the dots of s
DotPositions(s) ==
    {i \in 1..Len(s) : s[i] = "."}

SetMin(S) ==
    CHOOSE x \in S : \A y \in S : x <= y

SetMax(S) ==
    CHOOSE x \in S : \A y \in S : x >= y

\* domain.split('.')[0] if '.' in domain else domain
FirstLabel(domain) ==
    IF DotPositions(domain) = {}
    THEN domain
    ELSE SubSeq(domain, 1, SetMin(DotPositions(domain)) - 1)

\* domain.split('.')[-1]
LastPart(domain) ==
    IF DotPositions(domain) = {}
    THEN domain
    ELSE SubSeq(domain, SetMax(DotPositions(domain)) + 1, Len(domain))

\* len(domain.split('.'))
NumParts(domain) ==
    Cardinality(DotPositions(domain)) + 1

\* keyword in text  (substring test)
Contains(text, keyword) ==
    \E i \in 1..(Len(text) - Len(keyword) + 1) :
        SubSeq(text, i, i + Len(keyword) - 1) = keyword

\* the number of positions of text whose lower-cased character is in chars
CountIn(text, chars) ==
    Cardinality({i \in 1..Len(text) : LowerChar(text[i]) \in chars})

RECURSIVE SumOver(_, _)
\* sum of f[x] over the finite set S
SumOver(f, S) ==
    IF S = {}
    THEN 0
    ELSE LET x == CHOOSE y \in S : TRUE
         IN  f[x] + SumOver(f, S \ {x})

\* round(x / unit) to the nearest integer, ties to even: Python's round()
RoundHalfEven(x, unit) ==
    LET q == x \div unit
        r == x % unit
    IN  IF 2 * r < unit THEN q
        ELSE IF 2 * r > unit THEN q + 1
        ELSE IF q % 2 = 0 THEN q ELSE q + 1

Min(a, b) ==
    IF a <= b THEN a ELSE b

Max(a, b) ==
    IF a >= b THEN a ELSE b

-----------------------------------------------------------------------------
(* RiskEngine._get_default_config: the built-in configuration. *)

DefaultWeights ==
    [domain_length |-> 1500, entropy_score |-> 2500, tld_risk |-> 2000,
     keyword_matches |-> 3000, age_days |-> 1000]

DefaultSuspiciousKeywords ==
    << <<"l", "o", "g", "i", "n">>,
       <<"s", "e", "c", "u", "r", "e">>,
       <<"a", "c", "c", "o", "u", "n", "t">>,
       <<"v", "e", "r", "i", "f", "y">>,
       <<"u", "p", "d", "a", "t", "e">>,
       <<"b", "a", "n", "k">>,
       <<"p", "a", "y", "p", "a", "l">>,
       <<"m", "i", "c", "r", "o", "s", "o", "f", "t">>,
       <<"a", "p", "p", "l", "e">>,
       <<"s", "u", "p", "p", "o", "r", "t">>,
       <<"s", "e", "r", "v", "i", "c", "e">> >>

DefaultMalwareKeywords ==
    << <<"t", "r", "o", "j", "a", "n">>,
       <<"r", "a", "n", "s", "o", "m", "w", "a", "r", "e">>,
       <<"m", "a", "l", "w", "a", "r", "e">>,
       <<"v", "i", "r", "u", "s">>,
       <<"s", "p", "y", "w", "a", "r", "e">>,
       <<"b", "o", "t", "n", "e", "t">>,
       <<"k", "e", "y", "l", "o", "g", "g", "e", "r">>,
       <<"b", "a", "c", "k", "d", "o", "o", "r">>,
       <<"e", "x", "p", "l", "o", "i", "t">>,
       <<"p", "a", "y", "l", "o", "a", "d">> >>

DefaultPhishingKeywords ==
    << <<"p", "h", "i", "s", "h">>,
       <<"s", "p", "o", "o", "f">>,
       <<"c", "l", "o", "n", "e">>,
       <<"f", "a", "k", "e">>,
       <<"i", "m", "p", "e", "r", "s", "o", "n", "a", "t", "e">>,
       <<"c", "r", "e", "d", "e", "n", "t", "i", "a", "l">>,
       <<"p", "a", "s", "s", "w", "o", "r", "d">>,
       <<"a", "u", "t", "h">>,
       <<"a", "u", "t", "h", "e", "n", "t", "i", "c", "a", "t", "i", "o", "n">> >>

DefaultTldRiskScores ==
    (<<".", "c", "o", "m">> :> 10)
    @@ (<<".", "n", "e", "t">> :> 20)
    @@ (<<".", "o", "r", "g">> :> 15)
    @@ (<<".", "x", "y", "z">> :> 80)
    @@ (<<".", "t", "o", "p">> :> 70)
    @@ (<<".", "l", "o", "a", "n">> :> 90)
    @@ (<<".", "c", "l", "i", "c", "k">> :> 80)
    @@ (<<".", "w", "i", "n">> :> 70)
    @@ (<<".", "b", "i", "z">> :> 60)
    @@ (<<".", "i", "n", "f", "o">> :> 50)
    @@ (<<".", "o", "n", "l", "i", "n", "e">> :> 60)
    @@ (<<".", "s", "i", "t", "e">> :> 70)
    @@ (<<".", "w", "o", "r", "k">> :> 60)
    @@ (<<".", "c", "l", "u", "b">> :> 50)
    @@ (<<".", "s", "t", "o", "r", "e">> :> 40)
DefaultConfig ==
    [weights |-> DefaultWeights,
     suspicious_keywords |-> DefaultSuspiciousKeywords,
     malware_keywords |-> DefaultMalwareKeywords,
     phishing_keywords |-> DefaultPhishingKeywords,
     tld_risk_scores |-> DefaultTldRiskScores]

(* A well-formed configuration document on disk: what yaml.safe_load returns
   for it.  Its weights leave out age_days. *)
FileConfig ==
    [weights |-> [domain_length |-> 2000, entropy_score |-> 2500,
                  tld_risk |-> 2000, keyword_matches |-> 3000],
     suspicious_keywords |-> DefaultSuspiciousKeywords,
     malware_keywords |-> DefaultMalwareKeywords,
     phishing_keywords |-> DefaultPhishingKeywords,
     tld_risk_scores |-> DefaultTldRiskScores]

(* What the config path can point at when RiskEngine() runs. *)
ConfigSources ==
    {"missing", "unreadable", "malformed", "empty", "valid"}

\* dict.get(key, default)
Get(d, key, default) ==
    IF key \in DOMAIN d THEN d[key] ELSE default

(* RiskEngine._load_config: open() raises FileNotFoundError for a missing file
   and PermissionError for an unreadable one; yaml.safe_load raises YAMLError
   on a malformed document and returns None for an empty one.  Only
   FileNotFoundError is caught. *)
_load_config(source) ==
    CASE source = "missing"    -> [exc |-> "none", is_none |-> FALSE, config |-> DefaultConfig]
      [] source = "unreadable" -> [exc |-> "PermissionError"]
      [] source = "malformed"  -> [exc |-> "YAMLError"]
      [] source = "empty"      -> [exc |-> "none", is_none |-> TRUE]
      [] source = "valid"      -> [exc |-> "none", is_none |-> FALSE, config |-> FileConfig]

(* RiskEngine.__init__: self.config.get(...) on None raises AttributeError. *)
RiskEngine__init__(source) ==
    LET Build(loaded) ==
            IF loaded.exc # "none"
            THEN [exc |-> loaded.exc]
            ELSE IF loaded.is_none
            THEN [exc |-> "AttributeError"]
            ELSE [exc |-> "none",
                  weights |-> Get(loaded.config, "weights", <<>>),
                  self |-> [state |-> "ready",
                            suspicious_keywords |-> Get(loaded.config, "suspicious_keywords", <<>>),
                            malware_keywords |-> Get(loaded.config, "malware_keywords", <<>>),
                            phishing_keywords |-> Get(loaded.config, "phishing_keywords", <<>>),
                            tld_risk_scores |-> Get(loaded.config, "tld_risk_scores", <<>>)]]
    IN  Build(_load_config(source))

-----------------------------------------------------------------------------
(* Component scorers of the engine (Mode A). *)

(* round(log2(k) * 10^6) for k = 1..40 *)
Log2Micro ==
    <<0, 1000000, 1584963, 2000000, 2321928, 2584963, 2807355, 3000000, 3169925, 3321928,
      3459432, 3584963, 3700440, 3807355, 3906891, 4000000, 4087463, 4169925, 4247928, 4321928,
      4392317, 4459432, 4523562, 4584963, 4643856, 4700440, 4754888, 4807355, 4857981, 4906891,
      4954196, 5000000, 5044394, 5087463, 5129283, 5169925, 5209453, 5247928, 5285402, 5321928>>

(* n * H(text) in millionths of a bit, n = len(text):
   H = -sum p log2 p = log2 n - (1/n) sum c log2 c over the character counts c. *)
EntropyTimesLen(text) ==
    LET n     == Len(text)
        chars == {LowerChar(text[i]) : i \in 1..n}
        count == [c \in chars |-> Cardinality({i \in 1..n : LowerChar(text[i]) = c})]
        clog  == [c \in chars |-> count[c] * Log2Micro[count[c]]]
    IN  n * Log2Micro[n] - SumOver(clog, chars)

(* calculate_entropy, in millionths of a bit *)
calculate_entropy(text) ==
    IF text = <<>>
    THEN 0
    ELSE EntropyTimesLen(text) \div Len(text)

(* In the scorers the measured value is computed once and handed to a local
   operator that classifies it, as the code binds it to a local variable. *)
(* score_domain_length measuring the whole domain instead of its leftmost
   label: the variant C19 is sensitive to. *)
score_domain_length_of_whole(domain) ==
    LET Classify(length) ==
            LET score == IF length < 5 THEN 80
                         ELSE IF length > 30 THEN 70
                         ELSE IF length > 20 THEN 40
                         ELSE 10
            IN  [score |-> score,
                 details |-> [length |-> length, score |-> score,
                              reason |-> <<"Domain name length", length>>]]
    IN  Classify(Len(domain))

score_domain_length(domain) ==
    LET Classify(length) ==
            LET score == IF length < 5 THEN 80
                         ELSE IF length > 30 THEN 70
                         ELSE IF length > 20 THEN 40
                         ELSE 10
                reason == IF length < 5 THEN <<"Domain name very short", length>>
                          ELSE IF length > 30 THEN <<"Domain name very long", length>>
                          ELSE IF length > 20 THEN <<"Domain name long", length>>
                          ELSE <<"Domain name normal length", length>>
            IN  [score |-> score,
                 details |-> [length |-> length, score |-> score, reason |-> reason]]
    IN  Classify(Len(FirstLabel(domain)))

score_entropy(domain) ==
    LET Classify(entropy) ==
            LET score == IF entropy < 2000000 THEN 90
                         ELSE IF entropy > 4500000 THEN 80
                         ELSE IF entropy > 4000000 THEN 30
                         ELSE 10
                reason == IF entropy < 2000000 THEN <<"Low entropy, predictable pattern", entropy>>
                          ELSE IF entropy > 4500000 THEN <<"High entropy, random pattern", entropy>>
                          ELSE IF entropy > 4000000 THEN <<"Moderate entropy", entropy>>
                          ELSE <<"Normal entropy", entropy>>
            IN  [score |-> score,
                 details |-> [entropy |-> entropy, score |-> score, reason |-> reason]]
    IN  Classify(calculate_entropy(FirstLabel(domain)))

(* score_tld with inclusive band edges (>= 0.7, >= 0.5): the variant C16 is
   sensitive to. *)
score_tld_inclusive(self, domain) ==
    LET Classify(tld, tld_risk) ==
            LET score == IF tld_risk >= 70 THEN 90
                         ELSE IF tld_risk >= 50 THEN 60
                         ELSE 20
            IN  [score |-> score,
                 details |-> [tld |-> tld, tld_risk |-> tld_risk, score |-> score,
                              reason |-> IF tld_risk >= 70 THEN <<"High-risk TLD", tld>>
                                         ELSE IF tld_risk >= 50 THEN <<"Medium-risk TLD", tld>>
                                         ELSE <<"Low-risk TLD", tld>>]]
        Lookup(tld) == Classify(tld, Get(self.tld_risk_scores, Lower(tld), 50))
    IN  Lookup(IF NumParts(domain) < 2 THEN domain ELSE <<".">> \o LastPart(domain))

score_tld(self, domain) ==
    LET Classify(tld, tld_risk) ==
            LET score == IF tld_risk > 70 THEN 90
                         ELSE IF tld_risk > 50 THEN 60
                         ELSE 20
                reason == IF tld_risk > 70 THEN <<"High-risk TLD", tld>>
                          ELSE IF tld_risk > 50 THEN <<"Medium-risk TLD", tld>>
                          ELSE <<"Low-risk TLD", tld>>
            IN  [score |-> score,
                 details |-> [tld |-> tld, tld_risk |-> tld_risk, score |-> score,
                              reason |-> reason]]
        Lookup(tld) == Classify(tld, Get(self.tld_risk_scores, Lower(tld), 50))
    IN  Lookup(IF NumParts(domain) < 2 THEN domain ELSE <<".">> \o LastPart(domain))

(* score_keywords with the bands in the reverse order, the more matches the
   lower the score: the variant C14 is sensitive to. *)
score_keywords_descending(self, domain) ==
    LET Classify(matches, total_matches) ==
            LET score == IF total_matches >= 3 THEN 10
                         ELSE IF total_matches >= 2 THEN 50
                         ELSE IF total_matches >= 1 THEN 75
                         ELSE 95
            IN  [score |-> score,
                 details |-> [matches |-> matches, total_matches |-> total_matches,
                              score |-> score, reason |-> <<"Keywords", matches>>]]
        Count(matches) ==
            Classify(matches, Len(matches.suspicious)
                              + Len(matches.malware) * 2
                              + Len(matches.phishing) * 3)
        Match(domain_lower) ==
            LET Hit(keyword) == Contains(domain_lower, keyword)
            IN  Count([suspicious |-> SelectSeq(self.suspicious_keywords, Hit),
                       malware |-> SelectSeq(self.malware_keywords, Hit),
                       phishing |-> SelectSeq(self.phishing_keywords, Hit)])
    IN  Match(Lower(domain))

(* score_keywords matching the domain as given, without lower-casing it, and
   counting every match once: the variant C15 is sensitive to. *)
score_keywords_plain(self, domain) ==
    LET Classify(matches, total_matches) ==
            LET score == IF total_matches >= 3 THEN 95
                         ELSE IF total_matches >= 2 THEN 75
                         ELSE IF total_matches >= 1 THEN 50
                         ELSE 10
            IN  [score |-> score,
                 details |-> [matches |-> matches, total_matches |-> total_matches,
                              score |-> score, reason |-> <<"Keywords", matches>>]]
        Count(matches) ==
            Classify(matches, Len(matches.suspicious)
                              + Len(matches.malware)
                              + Len(matches.phishing))
        Match(domain_as_given) ==
            LET Hit(keyword) == Contains(domain_as_given, keyword)
            IN  Count([suspicious |-> SelectSeq(self.suspicious_keywords, Hit),
                       malware |-> SelectSeq(self.malware_keywords, Hit),
                       phishing |-> SelectSeq(self.phishing_keywords, Hit)])
    IN  Match(domain)

score_keywords(self, domain) ==
    LET Classify(matches, total_matches) ==
            LET score == IF total_matches >= 3 THEN 95
                         ELSE IF total_matches >= 2 THEN 75
                         ELSE IF total_matches >= 1 THEN 50
                         ELSE 10
                reason == IF total_matches >= 3
                          THEN <<"Multiple suspicious keywords detected", matches>>
                          ELSE IF total_matches >= 2
                          THEN <<"Suspicious keywords detected", matches>>
                          ELSE IF total_matches >= 1
                          THEN <<"Keyword match detected", matches>>
                          ELSE <<"No suspicious keyword matches">>
            IN  [score |-> score,
                 details |-> [matches |-> matches, total_matches |-> total_matches,
                              score |-> score, reason |-> reason]]
        Count(matches) ==
            Classify(matches, Len(matches.suspicious)
                              + Len(matches.malware) * 2
                              + Len(matches.phishing) * 3)
        Match(domain_lower) ==
            LET Hit(keyword) == Contains(domain_lower, keyword)
            IN  Count([suspicious |-> SelectSeq(self.suspicious_keywords, Hit),
                       malware |-> SelectSeq(self.malware_keywords, Hit),
                       phishing |-> SelectSeq(self.phishing_keywords, Hit)])
    IN  Match(Lower(domain))

(* Optional[datetime] and Optional[int]: None is <<>>, a value v is <<v>>. *)
NoDate ==
    <<>>

(* score_age; utcnow is the clock reading of the call, (now - created_date).days
   the whole days between the two. *)
(* score_age with a missing creation date read as day 0 of the time line
   instead of "unknown": the variant C5 is sensitive to. *)
score_age_from_epoch(created_date, utcnow) ==
    LET Classify(age_days) ==
            LET score == IF age_days < 1 THEN 90
                         ELSE IF age_days < 7 THEN 70
                         ELSE IF age_days < 30 THEN 40
                         ELSE 10
            IN  [score |-> score,
                 details |-> [age_days |-> <<age_days>>, score |-> score,
                              reason |-> <<"Domain age", age_days>>]]
    IN  Classify(IF created_date = NoDate THEN utcnow ELSE utcnow - created_date[1])

score_age(created_date, utcnow) ==
    LET Classify(age_days) ==
            LET score == IF created_date = NoDate THEN 50
                         ELSE IF age_days < 1 THEN 90
                         ELSE IF age_days < 7 THEN 70
                         ELSE IF age_days < 30 THEN 40
                         ELSE 10
                reason == IF created_date = NoDate THEN <<"Domain age unknown">>
                          ELSE IF age_days < 1 THEN <<"Domain very new", age_days>>
                          ELSE IF age_days < 7 THEN <<"Domain new", age_days>>
                          ELSE IF age_days < 30 THEN <<"Domain relatively new", age_days>>
                          ELSE <<"Domain established", age_days>>
            IN  [score |-> score,
                 details |-> [age_days |-> IF created_date = NoDate THEN <<>> ELSE <<age_days>>,
                              score |-> score, reason |-> reason]]
    IN  Classify(IF created_date = NoDate THEN 0 ELSE utcnow - created_date[1])

Consonants ==
    {"b", "c", "d", "f", "g", "h", "j", "k", "l", "m", "n", "p", "q", "r", "s", "t", "v", "w", "x", "y", "z"}

Vowels ==
    {"a", "e", "i", "o", "u"}

(* score_ml_pattern: ratio = consonants / (vowels + 1), a ZeroDivisionError when
   the divisor is 0.  The ratio is reported in hundredths. *)
(* score_ml_pattern dividing by the number of vowels instead of vowels + 1:
   the variant C6 is sensitive to. *)
score_ml_pattern_no_guard(domain) ==
    LET Classify(consonants, divisor) ==
            IF divisor = 0
            THEN [exc |-> "ZeroDivisionError"]
            ELSE [exc |-> "none",
                  score |-> IF consonants > 3 * divisor THEN 80
                            ELSE IF consonants > 2 * divisor THEN 50
                            ELSE 20,
                  details |-> [consonant_vowel_ratio |-> (consonants * 100) \div divisor]]
        Measure(domain_name) ==
            Classify(CountIn(domain_name, Consonants), CountIn(domain_name, Vowels))
    IN  Measure(FirstLabel(domain))

score_ml_pattern(domain) ==
    LET Classify(consonants, divisor) ==
            LET score == IF consonants > 3 * divisor THEN 80
                         ELSE IF consonants > 2 * divisor THEN 50
                         ELSE 20
                Report(ratio) ==
                    [consonant_vowel_ratio |-> ratio,
                     score |-> score,
                     reason |-> IF consonants > 3 * divisor
                                THEN <<"High consonant/vowel ratio, possible DGA", ratio>>
                                ELSE IF consonants > 2 * divisor
                                THEN <<"Moderate consonant/vowel ratio", ratio>>
                                ELSE <<"Normal consonant/vowel ratio", ratio>>]
            IN  IF divisor = 0
                THEN [exc |-> "ZeroDivisionError"]
                ELSE [exc |-> "none", score |-> score,
                      details |-> Report((consonants * 100) \div divisor)]
        Measure(domain_name) ==
            Classify(CountIn(domain_name, Consonants), CountIn(domain_name, Vowels) + 1)
    IN  Measure(FirstLabel(domain))

-----------------------------------------------------------------------------
(* The inputs of the calls. *)

\* ""
D_empty ==
    <<>>

\* "example"
D_example ==
    <<"e", "x", "a", "m", "p", "l", "e">>

\* "example.com"
D_example_com ==
    <<"e", "x", "a", "m", "p", "l", "e", ".", "c", "o", "m">>

\* "ab.com"
D_ab_com ==
    <<"a", "b", ".", "c", "o", "m">>

\* "secure-paypal-login-verify.xyz"
D_secure_paypal ==
    <<"s", "e", "c", "u", "r", "e", "-", "p", "a", "y", "p", "a", "l", "-", "l", "o", "g", "i", "n", "-", "v", "e", "r", "i", "f", "y", ".", "x", "y", "z">>

\* "sub1.sub2.example.com"
D_subdomains ==
    <<"s", "u", "b", "1", ".", "s", "u", "b", "2", ".", "e", "x", "a", "m", "p", "l", "e", ".", "c", "o", "m">>

\* "PayPal.COM"
D_PayPal_COM ==
    <<"P", "a", "y", "P", "a", "l", ".", "C", "O", "M">>

\* "abcdefghijklmnopqrstuvwx.top"
D_alphabet24 ==
    <<"a", "b", "c", "d", "e", "f", "g", "h", "i", "j", "k", "l", "m", "n", "o", "p", "q", "r", "s", "t", "u", "v", "w", "x", ".", "t", "o", "p">>

\* "abcdefghijklmnopqr.biz"
D_alphabet18 ==
    <<"a", "b", "c", "d", "e", "f", "g", "h", "i", "j", "k", "l", "m", "n", "o", "p", "q", "r", ".", "b", "i", "z">>

\* "paypal-secure-login-verify.xyz"
D_paypal_secure ==
    <<"p", "a", "y", "p", "a", "l", "-", "s", "e", "c", "u", "r", "e", "-", "l", "o", "g", "i", "n", "-", "v", "e", "r", "i", "f", "y", ".", "x", "y", "z">>

\* "google.com"
D_google_com ==
    <<"g", "o", "o", "g", "l", "e", ".", "c", "o", "m">>

Domains ==
    { D_empty,
      D_example,
      D_example_com,
      D_ab_com,
      D_secure_paypal,
      D_subdomains,
      D_PayPal_COM,
      D_alphabet24,
      D_alphabet18,
      D_paypal_secure,
      D_google_com }

(* The inputs of the calls of the component scorers alone. *)

\* "example.xyz"
D_example_xyz ==
    <<"e", "x", "a", "m", "p", "l", "e", ".", "x", "y", "z">>

\* "example.biz"
D_example_biz ==
    <<"e", "x", "a", "m", "p", "l", "e", ".", "b", "i", "z">>

\* "example.unknown"
D_example_unknown ==
    <<"e", "x", "a", "m", "p", "l", "e", ".", "u", "n", "k", "n", "o", "w", "n">>

\* "x7g9k2p5q.com"
D_x7g9k2p5q_com ==
    <<"x", "7", "g", "9", "k", "2", "p", "5", "q", ".", "c", "o", "m">>

\* "aaaaa.com"
D_aaaaa_com ==
    <<"a", "a", "a", "a", "a", ".", "c", "o", "m">>

\* ".com"
D_dot_com ==
    <<".", "c", "o", "m">>

\* "abcd"
D_abcd ==
    <<"a", "b", "c", "d">>

\* "abcde"
D_abcde ==
    <<"a", "b", "c", "d", "e">>

\* "aaaaaaaaaaaaaaaaaaaa"
D_a20 ==
    <<"a", "a", "a", "a", "a", "a", "a", "a", "a", "a", "a", "a", "a", "a", "a", "a", "a", "a", "a", "a">>

\* "aaaaaaaaaaaaaaaaaaaaa.com"
D_a21_com ==
    <<"a", "a", "a", "a", "a", "a", "a", "a", "a", "a", "a", "a", "a", "a", "a", "a", "a", "a", "a", "a", "a", ".", "c", "o", "m">>

\* "a" * 30 + ".com"
D_a30_com ==
    <<"a", "a", "a", "a", "a", "a", "a", "a", "a", "a", "a", "a", "a", "a", "a", "a", "a", "a", "a", "a", "a", "a", "a", "a", "a", "a", "a", "a", "a", "a", ".", "c", "o", "m">>

\* "a" * 31 + ".com"
D_a31_com ==
    <<"a", "a", "a", "a", "a", "a", "a", "a", "a", "a", "a", "a", "a", "a", "a", "a", "a", "a", "a", "a", "a", "a", "a", "a", "a", "a", "a", "a", "a", "a", "a", ".", "c", "o", "m">>

\* "a" * 35 + ".com"
D_a35_com ==
    <<"a", "a", "a", "a", "a", "a", "a", "a", "a", "a", "a", "a", "a", "a", "a", "a", "a", "a", "a", "a", "a", "a", "a", "a", "a", "a", "a", "a", "a", "a", "a", "a", "a", "a", "a", ".", "c", "o", "m">>

\* "innocuous-domain.com"
D_innocuous ==
    <<"i", "n", "n", "o", "c", "u", "o", "u", "s", "-", "d", "o", "m", "a", "i", "n", ".", "c", "o", "m">>

\* "trojan-download-site.com"
D_trojan ==
    <<"t", "r", "o", "j", "a", "n", "-", "d", "o", "w", "n", "l", "o", "a", "d", "-", "s", "i", "t", "e", ".", "c", "o", "m">>

\* "paypal-login-verify.com"
D_paypal_login_verify ==
    <<"p", "a", "y", "p", "a", "l", "-", "l", "o", "g", "i", "n", "-", "v", "e", "r", "i", "f", "y", ".", "c", "o", "m">>

\* "secure-bank-login-update.com"
D_secure_bank ==
    <<"s", "e", "c", "u", "r", "e", "-", "b", "a", "n", "k", "-", "l", "o", "g", "i", "n", "-", "u", "p", "d", "a", "t", "e", ".", "c", "o", "m">>

\* "PayPal-Trojan-Phish.com"
D_PayPal_Trojan_Phish ==
    <<"P", "a", "y", "P", "a", "l", "-", "T", "r", "o", "j", "a", "n", "-", "P", "h", "i", "s", "h", ".", "c", "o", "m">>

\* "abcdefghijklmnop.com": 16 characters, each once
D_alphabet16 ==
    <<"a", "b", "c", "d", "e", "f", "g", "h", "i", "j", "k", "l", "m", "n", "o", "p",
      ".", "c", "o", "m">>

ScorerDomains ==
    Domains
    \cup { D_alphabet16,
           D_example_xyz,
           D_example_biz,
           D_example_unknown,
           D_x7g9k2p5q_com,
           D_aaaaa_com,
           D_dot_com,
           D_abcd,
           D_abcde,
           D_a20,
           D_a21_com,
           D_a30_com,
           D_a31_com,
           D_a35_com,
           D_innocuous,
           D_trojan,
           D_paypal_login_verify,
           D_secure_bank,
           D_PayPal_Trojan_Phish }

\* text with keyword put in after its first pos characters
InsertAt(text, pos, keyword) ==
    SubSeq(text, 1, pos) \o keyword \o SubSeq(text, pos + 1, Len(text))

\* Domains that match no keyword of the default lists.
NeutralDomains ==
    {D_example_com, D_innocuous}

\* Where a keyword is put into a neutral domain: front, middle and end.
KeywordPositions(domain) ==
    {0, Len(domain) \div 2, Len(domain)}

\* The neutral domains, and each with one phishing keyword put in.
KeywordDomains ==
    NeutralDomains
    \cup UNION {{InsertAt(domain, pos, DefaultPhishingKeywords[k]) :
                    pos \in KeywordPositions(domain),
                    k \in 1..Len(DefaultPhishingKeywords)} :
                domain \in NeutralDomains}

\* Every domain some call of the model scores.
ScoredDomains ==
    ScorerDomains \cup KeywordDomains

-----------------------------------------------------------------------------
(* Aggregation, classification and recommendations of the engine (Mode A). *)

\* ml_weight = 0.15, in hundredths
ml_weight ==
    15

RECURSIVE SeqSum(_)
\* sum(list)
SeqSum(s) ==
    IF s = <<>> THEN 0 ELSE Head(s) + SeqSum(Tail(s))

(* The value of result["weights"] and of export_config()["weights"]: a reference
   to the dict object self.weights, not a copy of it. *)
WeightsRef ==
    "self.weights"

(* _generate_recommendations(risk_result); overall_score is the rounded score of
   the result, in units of 10^-4. *)
_generate_recommendations(risk_result) ==
    LET Advise(overall_score, comp_scores) ==
            (IF overall_score >= 8000
             THEN <<"IMMEDIATE ACTION REQUIRED: Investigate this domain immediately",
                    "Consider blocking this domain at network perimeter",
                    "Submit to VirusTotal/AbuseIPDB for community analysis">>
             ELSE IF overall_score >= 6000
             THEN <<"HIGH RISK: Monitor this domain closely",
                    "Consider adding to watchlist for further investigation",
                    "Check for related domains and infrastructure">>
             ELSE <<>>)
            \o (IF comp_scores.keyword_matches.score >= 70
                THEN <<"Suspicious keywords detected - verify legitimacy">>
                ELSE <<>>)
            \o (IF comp_scores.tld_risk.score >= 70
                THEN << <<"High-risk TLD detected", comp_scores.tld_risk.details.tld>> >>
                ELSE <<>>)
            \o (IF comp_scores.entropy.score >= 70
                THEN <<"Unusual character patterns detected - possible DGA">>
                ELSE <<>>)
    IN  Advise(risk_result.overall_score, risk_result.component_scores)

(* The risk level of an aggregate in units of 10^-8. *)
RiskLevelOf(overall_score) ==
    IF overall_score >= 80000000 THEN "CRITICAL"
    ELSE IF overall_score >= 60000000 THEN "HIGH"
    ELSE IF overall_score >= 40000000 THEN "MEDIUM"
    ELSE IF overall_score >= 20000000 THEN "LOW"
    ELSE "VERY_LOW"

(* The weighted aggregate of calculate_overall_risk before the cap, in units of
   10^-8: w is the weight mapping, the scores are in hundredths. *)
(* The weighted sum with the base scores subtracted instead of added: the
   variant C1 is sensitive to. *)
WeightedTotal_subtracting(w, length_score, entropy_score, tld_score, keyword_score, age_score, ml_score) ==
    ml_score * ml_weight * 10000
    - (100 - ml_weight) * (length_score * Get(w, "domain_length", 1500)
                           + entropy_score * Get(w, "entropy_score", 2500)
                           + tld_score * Get(w, "tld_risk", 2000)
                           + keyword_score * Get(w, "keyword_matches", 3000)
                           + age_score * Get(w, "age_days", 1000))

(* The aggregate with the pattern weight taken from an ml_pattern entry of the
   weights, in units of 10^-4: the variant C29 is sensitive to. *)
WeightedTotal_live_pattern(w, length_score, entropy_score, tld_score, keyword_score, age_score, ml_score) ==
    (100 - Get(w, "ml_pattern", 1500) \div 100)
        * (length_score * Get(w, "domain_length", 1500)
           + entropy_score * Get(w, "entropy_score", 2500)
           + tld_score * Get(w, "tld_risk", 2000)
           + keyword_score * Get(w, "keyword_matches", 3000)
           + age_score * Get(w, "age_days", 1000))
    + ml_score * (Get(w, "ml_pattern", 1500) \div 100) * 10000

(* The aggregate without the pattern blend: the variant C27 is sensitive to. *)
WeightedTotal_unblended(w, length_score, entropy_score, tld_score, keyword_score, age_score, ml_score) ==
    100 * (length_score * Get(w, "domain_length", 1500)
           + entropy_score * Get(w, "entropy_score", 2500)
           + tld_score * Get(w, "tld_risk", 2000)
           + keyword_score * Get(w, "keyword_matches", 3000)
           + age_score * Get(w, "age_days", 1000))

WeightedTotal(w, length_score, entropy_score, tld_score, keyword_score, age_score, ml_score) ==
    LET Blend(weighted_scores, scale_factor) ==
            IF ml_score # 0
            THEN [i \in 1..5 |-> weighted_scores[i] * scale_factor]
                 \o <<ml_score * ml_weight * 10000>>
            ELSE [i \in 1..5 |-> weighted_scores[i] * 100]
    IN  SeqSum(Blend(<<length_score * Get(w, "domain_length", 1500),
                       entropy_score * Get(w, "entropy_score", 2500),
                       tld_score * Get(w, "tld_risk", 2000),
                       keyword_score * Get(w, "keyword_matches", 3000),
                       age_score * Get(w, "age_days", 1000)>>,
                     100 - ml_weight))

(* The engines the constructor can build. *)
Engines ==
    {RiskEngine__init__(source).self :
        source \in {s \in ConfigSources : RiskEngine__init__(s).exc = "none"}}

(* What the five scorers that depend on the engine and the domain alone return,
   for each engine and each domain of the model: the scorers are evaluated once
   per pair. *)
ComponentScores ==
    [self \in Engines |->
        [domain \in ScoredDomains |->
            [length |-> score_domain_length(domain),
             entropy |-> score_entropy(domain),
             tld |-> score_tld(self, domain),
             keyword |-> score_keywords(self, domain),
             ml |-> score_ml_pattern(domain)]]]

(* calculate_overall_risk(domain, created_date) on the engine self whose weight
   dict holds w, with the clock reading utcnow. *)
calculate_overall_risk(self, w, domain, created_date, utcnow) ==
    LET Compile(length, entropy, tld, keyword, age, ml, overall_score) ==
            [domain |-> domain,
             overall_score |-> RoundHalfEven(overall_score, 10000),
             risk_level |-> RiskLevelOf(overall_score),
             component_scores |->
                 [domain_length |-> length,
                  entropy |-> entropy,
                  tld_risk |-> tld,
                  keyword_matches |-> keyword,
                  age_days |-> age],
             ml_pattern_score |->
                 IF ml.score # 0
                 THEN <<[score |-> ml.score, details |-> ml.details]>>
                 ELSE <<>>,
             weights |-> WeightsRef,
             timestamp |-> utcnow]
        Recommend(overall_score, result) ==
            IF overall_score >= 60000000
            THEN [recommendations |-> _generate_recommendations(result)] @@ result
            ELSE result
        Aggregate(length, entropy, tld, keyword, age, ml, overall_score) ==
            Recommend(overall_score,
                      Compile(length, entropy, tld, keyword, age, ml, overall_score))
        Score(length, entropy, tld, keyword, age, ml) ==
            IF ml.exc # "none"
            THEN [exc |-> ml.exc]
            ELSE [exc |-> "none",
                  value |-> Aggregate(length, entropy, tld, keyword, age, ml,
                                Min(99000000,
                                    WeightedTotal(w, length.score, entropy.score, tld.score,
                                                  keyword.score, age.score, ml.score)))]
        ScoreAll(scored) ==
            Score(scored.length, scored.entropy, scored.tld, scored.keyword,
                  score_age(created_date, utcnow), scored.ml)
    IN  ScoreAll(ComponentScores[self][domain])

(* Optional[List[datetime]]: None is <<>>, a list l is <<l>>. *)
NoDates ==
    <<>>

RECURSIVE BatchLoop(_, _, _, _, _, _, _)
(* The loop of batch_score_domains from index i on, results being the list built
   so far: created_dates[i] raises IndexError past the end of the list, and the
   exception leaves the function without a return value. *)
BatchLoop(self, w, domains, created_dates, utcnow, i, results) ==
    LET Collect(result) ==
            IF result.exc # "none"
            THEN [exc |-> result.exc]
            ELSE BatchLoop(self, w, domains, created_dates, utcnow, i + 1,
                           Append(results, result.value))
    IN  IF i > Len(domains)
        THEN [exc |-> "none", value |-> results]
        ELSE IF created_dates # NoDates /\ created_dates[1] # <<>> /\ i > Len(created_dates[1])
        THEN [exc |-> "IndexError"]
        ELSE Collect(calculate_overall_risk(self, w, domains[i],
                         IF created_dates # NoDates /\ created_dates[1] # <<>>
                         THEN created_dates[1][i]
                         ELSE NoDate,
                         utcnow))

(* batch_score_domains scoring the domains past the end of a shorter
   created_dates list with unknown age: the variant C30 is sensitive to. *)
batch_score_domains_padded(self, w, domains, created_dates, utcnow) ==
    LET Pad(dates) ==
            [i \in 1..Len(domains) |-> IF i <= Len(dates) THEN dates[i] ELSE NoDate]
    IN  BatchLoop(self, w, domains,
                  IF created_dates # NoDates /\ created_dates[1] # <<>>
                  THEN <<Pad(created_dates[1])>>
                  ELSE created_dates,
                  utcnow, 1, <<>>)

(* batch_score_domains dropping the creation dates: the variant C8 is
   sensitive to. *)
batch_score_domains_without_dates(self, w, domains, created_dates, utcnow) ==
    BatchLoop(self, w, domains, NoDates, utcnow, 1, <<>>)

batch_score_domains(self, w, domains, created_dates, utcnow) ==
    BatchLoop(self, w, domains, created_dates, utcnow, 1, <<>>)

(* update_weights replacing the dict instead of merging into it: the variant
   C9 is sensitive to. *)
update_weights_replacing(w, new_weights) ==
    new_weights

(* update_weights: dict.update, the entries of new_weights override. *)
update_weights(w, new_weights) ==
    new_weights @@ w

(* export_config: the dict holds the engine's own objects. *)
export_config(self, utcnow) ==
    [weights |-> WeightsRef,
     suspicious_keywords |-> self.suspicious_keywords,
     malware_keywords |-> self.malware_keywords,
     phishing_keywords |-> self.phishing_keywords,
     tld_risk_scores |-> self.tld_risk_scores,
     timestamp |-> utcnow]

-----------------------------------------------------------------------------
(* The service scorer, RiskService (Mode B).  Scores are in hundredths except
   the entropy score, which is in ten-thousandths; risk_score is in millionths
   of a point of the 0 to 100 scale. *)

\* "paypal", "bank", "login", "secure", "account", "verify", "confirm", "update", "password", "signin"
ServiceHighRiskKeywords ==
    << <<"p", "a", "y", "p", "a", "l">>,
       <<"b", "a", "n", "k">>,
       <<"l", "o", "g", "i", "n">>,
       <<"s", "e", "c", "u", "r", "e">>,
       <<"a", "c", "c", "o", "u", "n", "t">>,
       <<"v", "e", "r", "i", "f", "y">>,
       <<"c", "o", "n", "f", "i", "r", "m">>,
       <<"u", "p", "d", "a", "t", "e">>,
       <<"p", "a", "s", "s", "w", "o", "r", "d">>,
       <<"s", "i", "g", "n", "i", "n">> >>

\* RiskService._load_risk_config
ServiceConfig ==
    [weights |-> DefaultWeights,
     high_risk_keywords |-> ServiceHighRiskKeywords,
     suspicious_tlds |-> << <<".", "t", "k">>, <<".", "m", "l">>, <<".", "g", "a">>,
                            <<".", "c", "f">>, <<".", "x", "y", "z">> >>,
     max_domain_length |-> 30,
     min_entropy_threshold |-> 3000000]

\* the TLDs _calculate_tld_risk scores as low risk
ServiceTrustedTlds ==
    { <<".", "c", "o", "m">>, <<".", "n", "e", "t">>, <<".", "o", "r", "g">>,
      <<".", "e", "d", "u">>, <<".", "g", "o", "v">> }

SeqRange(s) ==
    {s[i] : i \in 1..Len(s)}

_calculate_length_risk(domain_length) ==
    IF domain_length > ServiceConfig.max_domain_length THEN 100
    ELSE IF domain_length < 3 THEN 80
    ELSE IF domain_length < 6 THEN 60
    ELSE IF domain_length > 20 THEN 70
    ELSE 20

(* _calculate_entropy_risk: the entropy of the text before the last dot, divided
   by 4.7 and capped at 1, kept when above min_entropy_threshold / 4.7 and
   multiplied by 0.3 otherwise. *)
_calculate_entropy_risk(domain_name) ==
    LET Normalize(ent, normalized_entropy) ==
            IF ent > ServiceConfig.min_entropy_threshold
            THEN normalized_entropy
            ELSE (normalized_entropy * 3) \div 10
        Risk(ent) == Normalize(ent, Min(10000, ent \div 470))
        Measure(domain_part) ==
            IF Len(domain_part) = 0
            THEN 0
            ELSE Risk(EntropyTimesLen(domain_part) \div Len(domain_part))
    IN  Measure(IF DotPositions(domain_name) # {}
                THEN SubSeq(domain_name, 1, SetMax(DotPositions(domain_name)) - 1)
                ELSE domain_name)

_get_tld(domain_name) ==
    IF NumParts(domain_name) > 1
    THEN <<".">> \o LastPart(domain_name)
    ELSE <<>>

_calculate_tld_risk(domain_name) ==
    LET Risk(tld) ==
            IF tld \in {Lower(t) : t \in SeqRange(ServiceConfig.suspicious_tlds)} THEN 90
            ELSE IF tld \in ServiceTrustedTlds THEN 10
            ELSE 40
    IN  Risk(Lower(_get_tld(domain_name)))

_find_matching_keywords(domain_name) ==
    LET Match(domain_lower) ==
            LET Hit(keyword) == Contains(domain_lower, keyword)
            IN  SelectSeq(ServiceConfig.high_risk_keywords, Hit)
    IN  Match(Lower(domain_name))

_calculate_keyword_risk(domain_name) ==
    LET Risk(matching_keywords) ==
            IF Len(matching_keywords) = 0 THEN 10
            ELSE IF Len(matching_keywords) = 1 THEN 50
            ELSE IF Len(matching_keywords) <= 3 THEN 70
            ELSE 90
    IN  Risk(_find_matching_keywords(domain_name))

(* _calculate_risk_score: (risk_score, risk_factors) *)
_calculate_risk_score(domain_name) ==
    LET Factors(w, domain_length, length_score, entropy_score, tld_risk, keyword_score, age_score) ==
            [risk_score |->
                 Min(100000000,
                     Max(0, length_score * 100 * w.domain_length
                            + entropy_score * w.entropy_score
                            + tld_risk * 100 * w.tld_risk
                            + keyword_score * 100 * w.keyword_matches
                            + age_score * 100 * w.age_days)),
             risk_factors |->
                 [domain_length |-> [score |-> length_score, weight |-> w.domain_length,
                                     raw_value |-> domain_length],
                  entropy_score |-> [score |-> entropy_score, weight |-> w.entropy_score,
                                     raw_value |-> RoundHalfEven(entropy_score, 100)],
                  tld_risk |-> [score |-> tld_risk, weight |-> w.tld_risk,
                                raw_value |-> _get_tld(domain_name)],
                  keyword_matches |-> [score |-> keyword_score, weight |-> w.keyword_matches,
                                       raw_value |-> _find_matching_keywords(domain_name)],
                  age_days |-> [score |-> age_score, weight |-> w.age_days, raw_value |-> 0]]]
    IN  Factors(ServiceConfig.weights,
                Len(domain_name),
                _calculate_length_risk(Len(domain_name)),
                _calculate_entropy_risk(domain_name),
                _calculate_tld_risk(domain_name),
                _calculate_keyword_risk(domain_name),
                50)

\* "EXAMPLE.XYZ"
D_EXAMPLE_XYZ ==
    <<"E", "X", "A", "M", "P", "L", "E", ".", "X", "Y", "Z">>

\* "ab"
D_ab ==
    <<"a", "b">>

\* The domain names the service's factors and recommendations are computed for.
AdvisedDomains ==
    ScorerDomains \cup {D_EXAMPLE_XYZ, D_ab}

(* What _calculate_risk_score returns for each domain of the model, evaluated
   once per domain. *)
RiskScores ==
    [domain_name \in AdvisedDomains |-> _calculate_risk_score(domain_name)]

(* RiskService._generate_recommendations(risk_factors): raw_value of the
   entropy factor is in hundredths; a message is the pair of its text and the
   value put in it, <<>> where it has none. *)
RiskService_generate_recommendations(risk_factors) ==
    LET Fallback(recommendations) ==
            IF recommendations = <<>>
            THEN << <<"No specific risk indicators detected, but continued monitoring recommended", <<>> >> >>
            ELSE recommendations
        Advise(length_factor, entropy_factor, tld_factor, matching_keywords) ==
            Fallback(
                (IF length_factor.raw_value > ServiceConfig.max_domain_length
                 THEN << <<"Domain name is unusually long, which may indicate obfuscation", <<>> >> >>
                 ELSE IF length_factor.raw_value < 3
                 THEN << <<"Domain name is very short, potentially indicating typosquatting", <<>> >> >>
                 ELSE <<>>)
                \o (IF entropy_factor.raw_value > 70
                    THEN << <<"High character entropy suggests randomly generated domain, possible botnet C&C", <<>> >> >>
                    ELSE <<>>)
                \o (IF tld_factor.raw_value
                          \in {Lower(susp_tld) : susp_tld \in SeqRange(ServiceConfig.suspicious_tlds)}
                    THEN << <<"Suspicious TLD commonly used for malicious purposes",
                              tld_factor.raw_value>> >>
                    ELSE <<>>)
                \o (IF Len(matching_keywords) > 0
                    THEN << <<"Domain contains high-risk keywords", matching_keywords>> >>
                    ELSE <<>>))
    IN  Advise(risk_factors.domain_length,
               risk_factors.entropy_score,
               risk_factors.tld_risk,
               risk_factors.keyword_matches.raw_value)

\* created_date arguments: None, and dates given in days on the clock's time line
CreatedDates ==
    {NoDate, <<-29>>, <<0>>}

\* new_weights arguments of update_weights
WeightUpdates ==
    { [domain_length |-> 3000],
      [domain_length |-> 3264],
      [keyword_matches |-> -10000],
      [ml_pattern |-> 5000] }

\* the domains and dates batch_score_domains is called with
BatchDomains ==
    {D_example_com, D_secure_paypal}

BatchDates ==
    {<<-365>>, <<0>>}

\* the arguments of the pairs of calls a caller compares
TwiceDomains ==
    {D_example_com, D_secure_paypal}

TwiceDates ==
    {NoDate, <<0>>}

TwiceUpdates ==
    { [domain_length |-> 3000],
      [ml_pattern |-> 5000],
      [entropy |-> 9000] }

\* the threads that share the engine
Threads ==
    1..MaxThreads

\* a thread with no call of calculate_overall_risk in flight
IdleThread ==
    [pc |-> "idle", domain |-> <<>>, created_date |-> NoDate,
     weights_at_call |-> <<>>, reads |-> <<>>, result |-> <<>>]

\* the domains the threads score
ThreadDomains ==
    {D_example_com, D_secure_paypal, D_PayPal_COM}

\* new_weights arguments of an update_weights that runs beside a scoring call
RaceUpdates ==
    { [domain_length |-> 3000, keyword_matches |-> 1000],
      [entropy_score |-> 1000] }

\* the lists over S of length 0..n
ListsUpTo(S, n) ==
    UNION {[1..k -> S] : k \in 0..n}

-----------------------------------------------------------------------------
(* The state machine. *)

Init ==
    /\ configSource \in ConfigSources
    /\ engine = [state |-> "unconstructed"]
    /\ weights = <<>>
    /\ now = 0
    /\ ret = [op |-> "none"]
    /\ prev = [op |-> "none"]
    /\ db = [domains |-> <<>>, scans |-> <<>>]
    /\ threads = [t \in Threads |-> IdleThread]

(* risk_engine = RiskEngine(): the constructor runs once; an exception leaves no
   engine. *)
Construct ==
    LET Built(r) ==
            IF r.exc = "none"
            THEN /\ engine' = r.self
                 /\ weights' = r.weights
                 /\ ret' = [op |-> "RiskEngine", exc |-> "none"]
            ELSE /\ engine' = [state |-> "failed"]
                 /\ weights' = weights
                 /\ ret' = [op |-> "RiskEngine", exc |-> r.exc]
    IN  /\ engine.state = "unconstructed"
        /\ Built(RiskEngine__init__(configSource))
        /\ UNCHANGED <<threads, db, configSource, now, prev>>

(* Time passes. *)
Tick ==
    /\ now < MaxNow
    /\ now' = now + 1
    /\ UNCHANGED <<threads, db, configSource, engine, weights, ret, prev>>

(* A call of calculate_overall_risk.  The record of the call keeps, beside what
   the call returned, its arguments, the clock reading and the contents of the
   weight dict at the time of the call. *)
CallOverallRisk(domain, created_date) ==
    LET Returned(r) ==
            [op |-> "calculate_overall_risk",
             exc |-> r.exc,
             value |-> IF r.exc = "none" THEN r.value ELSE <<>>,
             domain |-> domain,
             created_date |-> created_date,
             utcnow |-> now,
             weights_then |-> weights]
    IN  /\ engine.state = "ready"
        /\ ret' = Returned(calculate_overall_risk(engine, weights, domain, created_date, now))
        /\ UNCHANGED <<threads, db, configSource, engine, weights, now>>

CalculateOverallRisk(domain, created_date) ==
    /\ CallOverallRisk(domain, created_date)
    /\ UNCHANGED prev

(* The same call by a caller that still holds the result of its previous call. *)
CalculateOverallRiskAgain(domain, created_date) ==
    /\ CallOverallRisk(domain, created_date)
    /\ prev' = ret

(* A call of batch_score_domains. *)
BatchScoreDomains(domains, created_dates) ==
    LET Returned(r) ==
            [op |-> "batch_score_domains",
             exc |-> r.exc,
             value |-> IF r.exc = "none" THEN r.value ELSE <<>>,
             domains |-> domains,
             created_dates |-> created_dates,
             utcnow |-> now,
             weights_then |-> weights]
    IN  /\ engine.state = "ready"
        /\ ret' = Returned(batch_score_domains(engine, weights, domains, created_dates, now))
        /\ UNCHANGED <<threads, db, configSource, engine, weights, now, prev>>

(* A call of update_weights: the dict is changed in place, nothing is returned
   that the caller keeps. *)
UpdateWeights(new_weights) ==
    /\ engine.state = "ready"
    /\ weights' = update_weights(weights, new_weights)
    /\ UNCHANGED <<threads, db, configSource, engine, now, ret, prev>>

(* A call of export_config. *)
ExportConfig ==
    /\ engine.state = "ready"
    /\ ret' = [op |-> "export_config",
               exc |-> "none",
               value |-> export_config(engine, now),
               utcnow |-> now,
               weights_then |-> weights]
    /\ UNCHANGED <<threads, db, configSource, engine, weights, now, prev>>

(* A call of RiskService._calculate_risk_score; the service has its own
   configuration and does not use the engine. *)
CalculateRiskScore(domain_name) ==
    /\ ret' = [op |-> "_calculate_risk_score",
               exc |-> "none",
               value |-> RiskScores[domain_name],
               domain |-> domain_name]
    /\ UNCHANGED <<threads, db, configSource, engine, weights, now, prev>>

Next ==
    \/ Construct
    \/ Tick
    \/ \E domain \in Domains, created_date \in CreatedDates :
           CalculateOverallRisk(domain, created_date)
    \/ \E new_weights \in WeightUpdates : UpdateWeights(new_weights)
    \/ ExportConfig
    \/ \E domain_name \in Domains : CalculateRiskScore(domain_name)

Spec ==
    Init /\ [][Next]_vars

(* Batch scoring. *)
NextBatch ==
    \/ Construct
    \/ Tick
    \/ \E domains \in ListsUpTo(BatchDomains, MaxBatch) :
       \E created_dates \in {NoDates} \cup {<<l>> : l \in ListsUpTo(BatchDates, MaxBatch)} :
           BatchScoreDomains(domains, created_dates)

SpecBatch ==
    Init /\ [][NextBatch]_vars

(* Two scoring calls whose results the caller compares. *)
NextTwice ==
    \/ Construct
    \/ Tick
    \/ \E domain \in TwiceDomains, created_date \in TwiceDates :
           CalculateOverallRiskAgain(domain, created_date)
    \/ \E new_weights \in TwiceUpdates : UpdateWeights(new_weights)

SpecTwice ==
    Init /\ [][NextTwice]_vars

-----------------------------------------------------------------------------
(* The component scorers called on their own, as the tests call them. *)

(* A call of score_domain_length(domain). *)
ScoreDomainLength(domain) ==
    /\ engine.state = "ready"
    /\ ret' = [op |-> "score_domain_length",
               exc |-> "none",
               domain |-> domain,
               value |-> ComponentScores[engine][domain].length]
    /\ UNCHANGED <<threads, db, configSource, engine, weights, now, prev>>

(* A call of score_entropy(domain). *)
ScoreEntropy(domain) ==
    /\ engine.state = "ready"
    /\ ret' = [op |-> "score_entropy",
               exc |-> "none",
               domain |-> domain,
               value |-> ComponentScores[engine][domain].entropy]
    /\ UNCHANGED <<threads, db, configSource, engine, weights, now, prev>>

(* A call of score_tld(domain). *)
ScoreTld(domain) ==
    /\ engine.state = "ready"
    /\ ret' = [op |-> "score_tld",
               exc |-> "none",
               domain |-> domain,
               value |-> ComponentScores[engine][domain].tld]
    /\ UNCHANGED <<threads, db, configSource, engine, weights, now, prev>>

(* A call of score_keywords(domain). *)
CallScoreKeywords(domain) ==
    /\ engine.state = "ready"
    /\ ret' = [op |-> "score_keywords",
               exc |-> "none",
               domain |-> domain,
               value |-> ComponentScores[engine][domain].keyword]
    /\ UNCHANGED <<threads, db, configSource, engine, weights, now>>

ScoreKeywords(domain) ==
    /\ CallScoreKeywords(domain)
    /\ UNCHANGED prev

\* The call of a caller that keeps what the call before returned.
ScoreKeywordsAgain(domain) ==
    /\ CallScoreKeywords(domain)
    /\ prev' = ret

NextScorers ==
    \/ Construct
    \/ \E domain \in ScorerDomains :
           \/ ScoreDomainLength(domain)
           \/ ScoreEntropy(domain)
           \/ ScoreTld(domain)
           \/ ScoreKeywords(domain)

SpecScorers ==
    Init /\ [][NextScorers]_vars

NextKeywords ==
    \/ Construct
    \/ \E domain \in KeywordDomains : ScoreKeywordsAgain(domain)

SpecKeywords ==
    Init /\ [][NextKeywords]_vars

-----------------------------------------------------------------------------
(* RiskService.analyze_domain_risk and the tables it writes.  A table is the
   sequence of its rows in the order of their insertion and a row's id is its
   place in it.  Measured durations (scan_duration_ms, analysis_time_ms) are
   left out of the rows. *)

(* _get_risk_level with the thresholds at the quarters of the scale: the
   variant C20 is sensitive to. *)
_get_risk_level_by_quarters(risk_score) ==
    IF risk_score < 25000000 THEN "low"
    ELSE IF risk_score < 50000000 THEN "medium"
    ELSE IF risk_score < 75000000 THEN "high"
    ELSE "critical"

(* _get_risk_level thresholds 20, 40 and 60 of the 0 to 100 scale, as
   risk_score is carried in millionths of a point. *)
_get_risk_level(risk_score) ==
    IF risk_score < 20000000 THEN "low"
    ELSE IF risk_score < 40000000 THEN "medium"
    ELSE IF risk_score < 60000000 THEN "high"
    ELSE "critical"

\* select(Domain).where(Domain.domain_name == domain_name): the ids found
DomainIdsNamed(domains, domain_name) ==
    {i \in 1..Len(domains) : domains[i].domain_name = domain_name}

(* _get_or_create_domain: the tables after it and the id of the row it
   returns; a new row gets the column defaults. *)
_get_or_create_domain(tables, domain_name, utcnow) ==
    IF DomainIdsNamed(tables.domains, domain_name) # {}
    THEN [db |-> tables,
          id |-> CHOOSE i \in DomainIdsNamed(tables.domains, domain_name) : TRUE]
    ELSE [db |-> [tables EXCEPT !.domains =
                      Append(@, [id |-> Len(tables.domains) + 1,
                                 domain_name |-> domain_name,
                                 registered_date |-> utcnow,
                                 source |-> "manual",
                                 risk_score |-> 0,
                                 risk_level |-> "low",
                                 risk_factors |-> <<>>,
                                 updated_at |-> utcnow])],
          id |-> Len(tables.domains) + 1]

(* RiskAnalysisResponse(...): risk_factors is declared Dict[str, float] and
   every value _calculate_risk_score puts in it is a dict, so validation of
   the response fails. *)
RiskAnalysisResponse(fields) ==
    [exc |-> "ValidationError"]

(* analyze_domain_risk(request): the tables after its two commits and what the
   caller gets. *)
analyze_domain_risk(tables, request, utcnow) ==
    LET Respond(after, domain, scan, scored) ==
            [db |-> after,
             response |-> RiskAnalysisResponse(
                              [domain_id |-> domain.id,
                               domain_name |-> domain.domain_name,
                               risk_score |-> scored.risk_score,
                               risk_level |-> _get_risk_level(scored.risk_score),
                               risk_factors |-> scored.risk_factors,
                               threat_indicators |-> <<>>,
                               recommendations |->
                                   RiskService_generate_recommendations(scored.risk_factors),
                               scan_id |-> scan.id])]
        Scan(updated, domain, scored) ==
            LET NewScan(scan) ==
                    Respond([updated EXCEPT !.scans = Append(@, scan)], domain, scan, scored)
            IN  NewScan([id |-> Len(updated.scans) + 1,
                         domain_id |-> domain.id,
                         scan_type |-> "risk",
                         scan_data |-> [request |-> request,
                                        factors |-> scored.risk_factors],
                         risk_score |-> scored.risk_score,
                         risk_level |-> _get_risk_level(scored.risk_score),
                         risk_factors |-> scored.risk_factors,
                         scanner_version |-> "1.0.0",
                         created_at |-> utcnow])
        Update(found, scored) ==
            LET Commit(domain) ==
                    Scan([found.db EXCEPT !.domains[found.id] = domain], domain, scored)
            IN  Commit([found.db.domains[found.id] EXCEPT
                            !.risk_score = scored.risk_score,
                            !.risk_level = _get_risk_level(scored.risk_score),
                            !.risk_factors = <<scored.risk_factors>>,
                            !.updated_at = utcnow])
        Analyze(found) ==
            Update(found, RiskScores[found.db.domains[found.id].domain_name])
    IN  Analyze(_get_or_create_domain(tables, request.domain_name, utcnow))

\* The domains the service is asked about: one or more of each risk level.
ServiceDomains ==
    {D_empty, D_example, D_example_com, D_alphabet18, D_secure_paypal}

\* RiskAnalysisRequest values
Requests ==
    [domain_name : ServiceDomains, force_rescan : BOOLEAN]

(* A call of analyze_domain_risk(request). *)
AnalyzeDomainRisk(request) ==
    LET Returned(r) ==
            /\ db' = r.db
            /\ ret' = [op |-> "analyze_domain_risk",
                       exc |-> r.response.exc,
                       request |-> request,
                       utcnow |-> now]
    IN  /\ Len(db.scans) < MaxScans
        /\ Returned(analyze_domain_risk(db, request, now))
        /\ UNCHANGED <<threads, configSource, engine, weights, now, prev>>

NextService ==
    \E request \in Requests : AnalyzeDomainRisk(request)

SpecService ==
    Init /\ [][NextService]_vars

(* _calculate_risk_score(domain_name) followed by
   _generate_recommendations(risk_factors), as lines 62 and 95 of
   analyze_domain_risk call them. *)
GenerateRecommendations(domain_name) ==
    /\ ret' = [op |-> "RiskService._generate_recommendations",
               exc |-> "none",
               domain |-> domain_name,
               risk_factors |-> RiskScores[domain_name].risk_factors,
               value |-> RiskService_generate_recommendations(
                             RiskScores[domain_name].risk_factors)]
    /\ UNCHANGED <<threads, db, configSource, engine, weights, now, prev>>

NextAdvice ==
    \E domain_name \in AdvisedDomains : GenerateRecommendations(domain_name)

SpecAdvice ==
    Init /\ [][NextAdvice]_vars

(* A caller that scores one domain on both scales: _calculate_risk_score of
   the service, called while the result of calculate_overall_risk is held. *)
CalculateRiskScoreAfter(domain_name) ==
    /\ ret.op = "calculate_overall_risk"
    /\ prev' = ret
    /\ ret' = [op |-> "_calculate_risk_score",
               exc |-> "none",
               value |-> RiskScores[domain_name],
               domain |-> domain_name]
    /\ UNCHANGED <<threads, db, configSource, engine, weights, now>>

NextModes ==
    \/ Construct
    \/ \E domain \in Domains : CalculateOverallRisk(domain, NoDate)
    \/ \E domain_name \in Domains : CalculateRiskScoreAfter(domain_name)

SpecModes ==
    Init /\ [][NextModes]_vars

-----------------------------------------------------------------------------
(* calculate_overall_risk run by several threads on the one engine of line 505.
   The interpreter can switch threads between any two bytecodes, so each
   self.weights.get of lines 360-364 is a step of its own; dict.get and
   dict.update on a dict with str keys are single calls that no other thread
   interleaves with.  The six scorers of lines 350-355 read only the engine's
   keyword lists and TLD table, which nothing writes after construction. *)

\* the keys of lines 360-364, in the order they are read
WeightKeys ==
    <<"domain_length", "entropy_score", "tld_risk", "keyword_matches", "age_days">>

\* the defaults of lines 360-364, in units of 10^-4
WeightDefaults ==
    <<1500, 2500, 2000, 3000, 1000>>

(* self.weights.get(key, default) with the documented default only: the variant
   C23 is sensitive to. *)
WeightRead_documented(w, i) ==
    WeightDefaults[i]

\* self.weights.get(key, default) for the i-th factor
WeightRead(w, i) ==
    Get(w, WeightKeys[i], WeightDefaults[i])

\* the five values read, as the mapping the aggregation of lines 359-365 uses
ReadsAsWeights(reads) ==
    [domain_length |-> reads[1],
     entropy_score |-> reads[2],
     tld_risk |-> reads[3],
     keyword_matches |-> reads[4],
     age_days |-> reads[5]]

(* Thread t enters calculate_overall_risk(domain, created_date) and runs the
   six scorers, lines 348-355. *)
ThreadCall(t, domain, created_date) ==
    /\ engine.state = "ready"
    /\ threads[t].pc \in {"idle", "done"}
    /\ threads' = [threads EXCEPT ![t] =
                       [pc |-> "scored", domain |-> domain, created_date |-> created_date,
                        weights_at_call |-> weights, reads |-> <<>>, result |-> <<>>]]
    /\ UNCHANGED <<configSource, engine, weights, now, ret, prev, db>>

(* Thread t reads the weights as of its call instead of the live dict: the
   variant C28 is sensitive to. *)
ThreadReadWeight_snapshot(t) ==
    /\ threads[t].pc = "scored"
    /\ Len(threads[t].reads) < 5
    /\ threads' = [threads EXCEPT ![t].reads =
                       Append(@, WeightRead(threads[t].weights_at_call, Len(@) + 1))]
    /\ UNCHANGED <<configSource, engine, weights, now, ret, prev, db>>

(* Thread t evaluates its next self.weights.get, one of lines 360-364. *)
ThreadReadWeight(t) ==
    /\ threads[t].pc = "scored"
    /\ Len(threads[t].reads) < 5
    /\ threads' = [threads EXCEPT ![t].reads = Append(@, WeightRead(weights, Len(@) + 1))]
    /\ UNCHANGED <<configSource, engine, weights, now, ret, prev, db>>

(* Thread t blends, sums, caps, compiles the result and returns it, lines
   367-433. *)
ThreadReturn(t) ==
    /\ threads[t].pc = "scored"
    /\ Len(threads[t].reads) = 5
    /\ threads' = [threads EXCEPT
                       ![t].pc = "done",
                       ![t].result = calculate_overall_risk(engine,
                                                            ReadsAsWeights(threads[t].reads),
                                                            threads[t].domain,
                                                            threads[t].created_date,
                                                            now)]
    /\ UNCHANGED <<configSource, engine, weights, now, ret, prev, db>>

(* A call of update_weights by another thread while scoring calls are in
   flight. *)
ThreadUpdateWeights(new_weights) ==
    /\ engine.state = "ready"
    /\ weights' = update_weights(weights, new_weights)
    /\ UNCHANGED <<configSource, engine, now, ret, prev, db, threads>>

(* Any number of scoring calls, no update_weights. *)
NextThreads ==
    \/ Construct
    \/ \E t \in Threads, domain \in ThreadDomains : ThreadCall(t, domain, NoDate)
    \/ \E t \in Threads : ThreadReadWeight(t)
    \/ \E t \in Threads : ThreadReturn(t)

SpecThreads ==
    Init /\ [][NextThreads]_vars

(* One scoring thread and a thread that updates the weights. *)
NextRace ==
    \/ Construct
    \/ \E domain \in ThreadDomains : ThreadCall(1, domain, NoDate)
    \/ ThreadReadWeight(1)
    \/ ThreadReturn(1)
    \/ \E new_weights \in RaceUpdates : ThreadUpdateWeights(new_weights)

SpecRace ==
    Init /\ [][NextRace]_vars

-----------------------------------------------------------------------------
(* Properties. *)

\* The last call was calculate_overall_risk and it returned a result.
IsScore ==
    ret.op = "calculate_overall_risk" /\ ret.exc = "none"

\* What a holder of v reads through it now: the dict behind a reference.
Deref(v) ==
    IF v = WeightsRef THEN weights ELSE v

\* A result with its timestamp blanked.
SansTimestamp(result) ==
    [result EXCEPT !.timestamp = 0]

\* No weight of the dict w is negative.
NonNegative(w) ==
    \A k \in DOMAIN w : w[k] >= 0

(* C1: with the built-in default configuration every calculate_overall_risk
   result has 0 <= overall_score <= 0.99, and every _calculate_risk_score
   result has 0 <= risk_score <= 100. *)
C1_DefaultScoreInRange ==
    /\ (IsScore /\ configSource = "missing" /\ ret.weights_then = DefaultWeights)
           => ret.value.overall_score \in 0..9900
    /\ ret.op = "_calculate_risk_score"
           => ret.value.risk_score \in 0..100000000

\* C1: the highest-scoring domain of the model, registered today, is scored
\* under the default configuration.
C1_Witness ==
    /\ IsScore
    /\ configSource = "missing"
    /\ ret.weights_then = DefaultWeights
    /\ ret.domain = D_secure_paypal
    /\ ret.created_date = <<0>>
    /\ ret.value.overall_score >= 5000

(* C2: whatever update_weights has stored, every calculate_overall_risk
   result has an overall_score floored at 0 and capped at 0.99. *)
C2_FlooredAndCapped ==
    IsScore => ret.value.overall_score \in 0..9900

\* The level the fixed thresholds give a returned (four-decimal) score.
ClaimedRiskLevel(overall_score) ==
    IF overall_score >= 8000 THEN "CRITICAL"
    ELSE IF overall_score >= 6000 THEN "HIGH"
    ELSE IF overall_score >= 4000 THEN "MEDIUM"
    ELSE IF overall_score >= 2000 THEN "LOW"
    ELSE "VERY_LOW"

(* C3: in every result, risk_level is what the thresholds 0.8, 0.6, 0.4, 0.2
   give the overall_score returned in that same result. *)
C3_LevelFromReturnedScore ==
    IsScore => ret.value.risk_level = ClaimedRiskLevel(ret.value.overall_score)

\* The recommendations C4 describes for a result.
ClaimedRecommendations(result) ==
    (IF result.overall_score >= 8000
     THEN <<"IMMEDIATE ACTION REQUIRED: Investigate this domain immediately",
            "Consider blocking this domain at network perimeter",
            "Submit to VirusTotal/AbuseIPDB for community analysis">>
     ELSE <<"HIGH RISK: Monitor this domain closely",
            "Consider adding to watchlist for further investigation",
            "Check for related domains and infrastructure">>)
    \o (IF result.component_scores.keyword_matches.score > 70
        THEN <<"Suspicious keywords detected - verify legitimacy">>
        ELSE <<>>)
    \o (IF result.component_scores.tld_risk.score > 70
        THEN << <<"High-risk TLD detected",
                  result.component_scores.tld_risk.details.tld>> >>
        ELSE <<>>)
    \o (IF result.component_scores.entropy.score > 70
        THEN <<"Unusual character patterns detected - possible DGA">>
        ELSE <<>>)

(* C4: a result carries recommendations exactly when its overall_score is at
   least 0.6, and then the list is the tier advisories (immediate-action from
   0.8, monitor otherwise) followed by the keyword, TLD and entropy advisories
   of the components scoring above 0.7. *)
C4_RecommendationsField ==
    IsScore =>
        /\ ("recommendations" \in DOMAIN ret.value) <=> (ret.value.overall_score >= 6000)
        /\ "recommendations" \in DOMAIN ret.value
               => ret.value.recommendations = ClaimedRecommendations(ret.value)

\* Two successive calculate_overall_risk calls returned, with the same
\* domain, creation date and weights.
SameCallTwice ==
    /\ prev.op = "calculate_overall_risk"
    /\ prev.exc = "none"
    /\ IsScore
    /\ prev.domain = ret.domain
    /\ prev.created_date = ret.created_date
    /\ prev.weights_then = ret.weights_then

(* C5 as stated: two calls with the same domain, creation date and config
   return results equal in every field but the timestamp, whenever they are
   made. *)
C5_DeterministicAtAnyTime ==
    SameCallTwice => SansTimestamp(prev.value) = SansTimestamp(ret.value)

(* C5 amended: two calls with the same domain, creation date and config return
   results equal in every field but the timestamp, provided no creation date
   is given or the clock shows the same day at both calls. *)
C5_DeterministicGivenAge ==
    (SameCallTwice /\ (ret.created_date = NoDate \/ prev.utcnow = ret.utcnow))
        => SansTimestamp(prev.value) = SansTimestamp(ret.value)

\* C5: the same dateless call made on two different days, with equal results
\* apart from the timestamp.
C5_Witness ==
    /\ SameCallTwice
    /\ ret.created_date = NoDate
    /\ prev.utcnow # ret.utcnow
    /\ prev.value.timestamp # ret.value.timestamp
    /\ SansTimestamp(prev.value) = SansTimestamp(ret.value)

(* C6: for every domain, the empty string, a string without a dot and a
   string with several dots included, calculate_overall_risk and the scorers
   it calls return without raising, every component score and the pattern
   score lie in [0,1], and with no negative weight the overall_score of the
   empty domain is greater than 0. *)
C6_TotalOnStrings ==
    ret.op = "calculate_overall_risk" =>
        /\ ret.exc = "none"
        /\ \A k \in DOMAIN ret.value.component_scores :
               ret.value.component_scores[k].score \in 0..100
        /\ \A i \in 1..Len(ret.value.ml_pattern_score) :
               ret.value.ml_pattern_score[i].score \in 0..100
        /\ (ret.domain = D_empty /\ NonNegative(ret.weights_then))
               => ret.value.overall_score > 0

\* C6: the empty domain has been scored.
C6_Witness ==
    /\ IsScore
    /\ ret.domain = D_empty
    /\ NonNegative(ret.weights_then)
    /\ ret.value.overall_score > 0
    /\ ret.value.component_scores.domain_length.details.length = 0

(* C7: construction never fails on a configuration error: with the config
   source missing, unreadable, malformed or empty, RiskEngine() returns an
   engine holding the default weights, keyword lists and TLD table. *)
C7_ConstructionFallsBack ==
    [][(engine.state = "unconstructed" /\ engine'.state # "unconstructed"
            /\ configSource # "valid")
        => /\ ret'.exc = "none"
           /\ engine'.state = "ready"
           /\ weights' = DefaultWeights
           /\ engine'.suspicious_keywords = DefaultSuspiciousKeywords
           /\ engine'.malware_keywords = DefaultMalwareKeywords
           /\ engine'.phishing_keywords = DefaultPhishingKeywords
           /\ engine'.tld_risk_scores = DefaultTldRiskScores]_vars

\* The creation date batch_score_domains pairs with the i-th domain.
DateOf(created_dates, i) ==
    IF created_dates # NoDates /\ created_dates[1] # <<>>
    THEN created_dates[1][i]
    ELSE NoDate

(* C8: for N domains with created_dates absent or of length N,
   batch_score_domains returns N results in input order, the i-th equal,
   apart from the timestamp, to calculate_overall_risk of domains[i] and
   created_dates[i] on its own. *)
C8_BatchIsPointwise ==
    (/\ ret.op = "batch_score_domains"
     /\ \/ ret.created_dates = NoDates
        \/ Len(ret.created_dates[1]) = Len(ret.domains))
        => /\ ret.exc = "none"
           /\ Len(ret.value) = Len(ret.domains)
           /\ \A i \in 1..Len(ret.domains) :
                  SansTimestamp(ret.value[i])
                  = SansTimestamp(calculate_overall_risk(
                                      engine, ret.weights_then, ret.domains[i],
                                      DateOf(ret.created_dates, i), ret.utcnow).value)

\* C8: a batch of two different domains with two different creation dates,
\* whose results differ in the age component.
C8_Witness ==
    /\ ret.op = "batch_score_domains"
    /\ ret.exc = "none"
    /\ Len(ret.domains) = 2
    /\ ret.domains[1] # ret.domains[2]
    /\ ret.created_dates # NoDates
    /\ Len(ret.created_dates[1]) = 2
    /\ ret.created_dates[1][1] # ret.created_dates[1][2]
    /\ Len(ret.value) = 2
    /\ ret.value[1].domain = ret.domains[1]
    /\ ret.value[2].domain = ret.domains[2]
    /\ ret.value[1].component_scores.age_days.score
           # ret.value[2].component_scores.age_days.score

\* A step of update_weights(partial) on a constructed engine.
MergesExactly(partial) ==
    /\ DOMAIN weights' = DOMAIN weights \cup DOMAIN partial
    /\ \A k \in DOMAIN partial : weights'[k] = partial[k]
    /\ \A k \in DOMAIN weights \ DOMAIN partial : weights'[k] = weights[k]

\* Two successive calls that differ only in domain_length having been raised
\* to 0.3 in between.
RescoredAfterRaise ==
    /\ prev.op = "calculate_overall_risk"
    /\ prev.exc = "none"
    /\ IsScore
    /\ prev.domain = ret.domain
    /\ prev.created_date = ret.created_date
    /\ prev.utcnow = ret.utcnow
    /\ prev.weights_then.domain_length # 3000
    /\ ret.weights_then = [prev.weights_then EXCEPT !.domain_length = 3000]

(* C9: update_weights(partial) overwrites exactly the entries partial names and
   leaves the other weights, the keyword lists and the TLD table unchanged;
   a result's weights field is the live dict, and a domain scored before and
   after domain_length is raised to 0.3 gets a different overall_score. *)
C9_UpdateWeightsMerges ==
    /\ [][(engine.state = "ready" /\ weights' # weights)
            => /\ \E partial \in TwiceUpdates : MergesExactly(partial)
               /\ engine' = engine]_vars
    /\ [](IsScore => Deref(ret.value.weights) = weights)
    /\ [](RescoredAfterRaise => ret.value.overall_score # prev.value.overall_score)

\* C9: a domain scored under domain_length 0.15 and again under 0.3, with a
\* higher overall_score the second time.
C9_Witness ==
    /\ RescoredAfterRaise
    /\ prev.weights_then.domain_length = 1500
    /\ weights.domain_length = 3000
    /\ ret.value.overall_score > prev.value.overall_score

(* C10: what export_config returned stays as it was at export time: the
   weights read through an exported snapshot are the weights of the moment
   of the export, and so are the keyword lists and the TLD table. *)
C10_SnapshotIsStable ==
    ret.op = "export_config" =>
        /\ Deref(ret.value.weights) = ret.weights_then
        /\ ret.value.suspicious_keywords = engine.suspicious_keywords
        /\ ret.value.malware_keywords = engine.malware_keywords
        /\ ret.value.phishing_keywords = engine.phishing_keywords
        /\ ret.value.tld_risk_scores = engine.tld_risk_scores

(* C11: a returned result never changes: whatever the engine does later, the
   weights read through a result are the weights of the call that made it. *)
C11_ResultIsImmutable ==
    IsScore => Deref(ret.value.weights) = ret.weights_then

\* The last call scored a domain under the built-in default configuration.
IsDefaultScore ==
    IsScore /\ configSource = "missing" /\ ret.weights_then = DefaultWeights

(* C12: under the default configuration a domain whose weighted keyword count
   is at least 3 scores at least 0.6, is HIGH or CRITICAL and carries a
   non-empty recommendations list, and secure-paypal-login-verify.xyz created
   on the day of the call scores at least 0.7. *)
C12_KeywordLadenScoresHigh ==
    (IsDefaultScore
       /\ ret.value.component_scores.keyword_matches.details.total_matches >= 3)
        => /\ ret.value.overall_score >= 6000
           /\ ret.value.risk_level \in {"HIGH", "CRITICAL"}
           /\ "recommendations" \in DOMAIN ret.value
           /\ ret.value.recommendations # <<>>
           /\ (ret.domain = D_secure_paypal /\ ret.created_date = <<ret.utcnow>>)
                  => ret.value.overall_score >= 7000

(* C13: under the default configuration a domain created at least 30 days
   ago, with a low-risk TLD, no keyword match and a leftmost label of 5 to 20
   characters has overall_score <= 0.3, is LOW or VERY_LOW and carries no
   recommendations. *)
C13_EstablishedScoresLow ==
    (/\ IsDefaultScore
     /\ ret.created_date # NoDate
     /\ ret.utcnow - ret.created_date[1] >= 30
     /\ ret.value.component_scores.tld_risk.score = 20
     /\ ret.value.component_scores.keyword_matches.details.total_matches = 0
     /\ ret.value.component_scores.domain_length.details.length \in 5..20)
        => /\ ret.value.overall_score <= 3000
           /\ ret.value.risk_level \in {"LOW", "VERY_LOW"}
           /\ "recommendations" \notin DOMAIN ret.value

\* The last two calls scored a domain matching no keyword and then the same
\* domain with a phishing keyword of the configuration put into it.
PhishingKeywordAdded ==
    /\ prev.op = "score_keywords"
    /\ ret.op = "score_keywords"
    /\ prev.value.details.total_matches = 0
    /\ \E k \in 1..Len(engine.phishing_keywords), pos \in 0..Len(prev.domain) :
           ret.domain = InsertAt(prev.domain, pos, engine.phishing_keywords[k])

(* C14: putting a phishing keyword into a domain that matches no keyword does
   not lower its keyword_matches score. *)
C14_KeywordMonotone ==
    PhishingKeywordAdded => ret.value.score >= prev.value.score

\* C14: a neutral domain scored 0.1, then with a phishing keyword put in the
\* middle of it and scored 0.95.
C14_Witness ==
    /\ PhishingKeywordAdded
    /\ prev.domain = D_innocuous
    /\ ret.domain = InsertAt(D_innocuous, Len(D_innocuous) \div 2, <<"p", "h", "i", "s", "h">>)
    /\ prev.value.score = 10
    /\ ret.value.score = 95

\* The keywords of a list that occur in the lower-cased domain.
OccurringIn(domain, keywords) ==
    {keywords[i] : i \in {j \in 1..Len(keywords) : Contains(Lower(domain), keywords[j])}}

\* A reported match list names exactly the keywords of the list that occur
\* in the domain, each once.
ListsExactly(reported, domain, keywords) ==
    /\ SeqRange(reported) = OccurringIn(domain, keywords)
    /\ Len(reported) = Cardinality(OccurringIn(domain, keywords))

(* C15: score_keywords reports exactly the keywords of each list that occur in
   the lower-cased domain, total_matches is suspicious + 2 * malware +
   3 * phishing of the reported lists, and the score is 0.95, 0.75, 0.5 or
   0.1 for a count of at least 3, at least 2, at least 1, or 0. *)
C15_KeywordScore ==
    ret.op = "score_keywords" =>
        /\ ListsExactly(ret.value.details.matches.suspicious, ret.domain,
                        engine.suspicious_keywords)
        /\ ListsExactly(ret.value.details.matches.malware, ret.domain,
                        engine.malware_keywords)
        /\ ListsExactly(ret.value.details.matches.phishing, ret.domain,
                        engine.phishing_keywords)
        /\ ret.value.details.total_matches
               = Len(ret.value.details.matches.suspicious)
                 + 2 * Len(ret.value.details.matches.malware)
                 + 3 * Len(ret.value.details.matches.phishing)
        /\ ret.value.score
               = (IF ret.value.details.total_matches >= 3 THEN 95
                  ELSE IF ret.value.details.total_matches >= 2 THEN 75
                  ELSE IF ret.value.details.total_matches >= 1 THEN 50
                  ELSE 10)
        /\ ret.value.details.score = ret.value.score

\* C15: a mixed-case domain that matches one keyword of each list.
C15_Witness ==
    /\ ret.op = "score_keywords"
    /\ ret.domain = D_PayPal_Trojan_Phish
    /\ ret.value.details.matches.suspicious = << <<"p", "a", "y", "p", "a", "l">> >>
    /\ ret.value.details.matches.malware = << <<"t", "r", "o", "j", "a", "n">> >>
    /\ ret.value.details.matches.phishing = << <<"p", "h", "i", "s", "h">> >>
    /\ ret.value.details.total_matches = 6
    /\ ret.value.score = 95

\* The risk value the TLD table gives a TLD, 0.5 when it is not in the table.
TableRisk(tld) ==
    IF Lower(tld) \in DOMAIN engine.tld_risk_scores
    THEN engine.tld_risk_scores[Lower(tld)]
    ELSE 50

(* C16: score_tld looks up the part of the domain from its last dot on in
   tld_risk_scores, takes 0.5 when it is absent, and returns 0.9 for a value
   above 0.7, 0.6 for a value above 0.5 and 0.2 otherwise; example.xyz scores
   0.9, example.biz 0.6 and example.com 0.2. *)
C16_TldScore ==
    ret.op = "score_tld" =>
        /\ NumParts(ret.domain) >= 2
               => ret.value.details.tld = <<".">> \o LastPart(ret.domain)
        /\ ret.value.details.tld_risk = TableRisk(ret.value.details.tld)
        /\ ret.value.score
               = (IF ret.value.details.tld_risk > 70 THEN 90
                  ELSE IF ret.value.details.tld_risk > 50 THEN 60
                  ELSE 20)
        /\ ret.value.details.reason[1]
               = (IF ret.value.score = 90 THEN "High-risk TLD"
                  ELSE IF ret.value.score = 60 THEN "Medium-risk TLD"
                  ELSE "Low-risk TLD")
        /\ ret.domain = D_example_xyz => ret.value.score = 90
        /\ ret.domain = D_example_biz => ret.value.score = 60
        /\ ret.domain = D_example_com => ret.value.score = 20

\* C16: a TLD whose table value is exactly 0.7 is scored medium.
C16_Witness ==
    /\ ret.op = "score_tld"
    /\ ret.domain = D_alphabet24
    /\ ret.value.details.tld = <<".", "t", "o", "p">>
    /\ ret.value.details.tld_risk = 70
    /\ ret.value.score = 60

(* C17: for a domain whose TLD is not in the TLD risk table score_tld returns
   the default, medium score, between 0.4 and 0.6. *)
C17_UnknownTldIsMedium ==
    (/\ ret.op = "score_tld"
     /\ NumParts(ret.domain) >= 2
     /\ Lower(<<".">> \o LastPart(ret.domain)) \notin DOMAIN engine.tld_risk_scores)
        => ret.value.score \in 40..60

\* The characters of text are pairwise distinct.
PairwiseDistinct(text) ==
    \A i, j \in 1..Len(text) : text[i] = text[j] => i = j

(* C18: score_entropy scores a leftmost label of at least 9 pairwise distinct
   characters as high entropy: score >= 0.7 and a reason of high entropy. *)
C18_DistinctLabelIsHighEntropy ==
    (/\ ret.op = "score_entropy"
     /\ Len(FirstLabel(ret.domain)) >= 9
     /\ PairwiseDistinct(Lower(FirstLabel(ret.domain))))
        => /\ ret.value.score >= 70
           /\ ret.value.details.reason[1] = "High entropy, random pattern"

\* The text of domain before its first dot, all of it when it has no dot.
IsLeftmostLabel(label, domain) ==
    /\ Len(label) <= Len(domain)
    /\ label = SubSeq(domain, 1, Len(label))
    /\ \A i \in 1..Len(label) : label[i] # "."
    /\ Len(label) < Len(domain) => domain[Len(label) + 1] = "."

(* C19: score_domain_length measures the leftmost label and returns 0.8 for a
   length under 5, 0.7 over 30, 0.4 for 21 to 30 and 0.1 for 5 to 20; the
   empty label has length 0 and scores 0.8 as very short. *)
C19_LengthScore ==
    ret.op = "score_domain_length" =>
        /\ \E n \in 0..Len(ret.domain) :
               /\ IsLeftmostLabel(SubSeq(ret.domain, 1, n), ret.domain)
               /\ ret.value.details.length = n
        /\ ret.value.score
               = (IF ret.value.details.length < 5 THEN 80
                  ELSE IF ret.value.details.length > 30 THEN 70
                  ELSE IF ret.value.details.length >= 21 THEN 40
                  ELSE 10)
        /\ ret.value.details.length = 0
               => ret.value.details.reason[1] = "Domain name very short"

\* C19: a domain that starts with a dot has the empty label, scored 0.8.
C19_Witness ==
    /\ ret.op = "score_domain_length"
    /\ ret.domain = D_dot_com
    /\ ret.value.details.length = 0
    /\ ret.value.score = 80
    /\ ret.value.details.reason[1] = "Domain name very short"

\* The level the four thresholds give a 0 to 100 score, in millionths.
ClaimedServiceLevel(risk_score) ==
    IF risk_score < 20 * 1000000 THEN "low"
    ELSE IF risk_score < 40 * 1000000 THEN "medium"
    ELSE IF risk_score < 60 * 1000000 THEN "high"
    ELSE "critical"

\* The Domain row of the domain the last analysis was asked about.
AnalyzedRow ==
    db.domains[CHOOSE i \in 1..Len(db.domains) :
                   db.domains[i].domain_name = ret.request.domain_name]

\* The DomainScan record the last analysis added.
NewScanRecord ==
    db.scans[Len(db.scans)]

(* C20: after analyze_domain_risk the Domain row of the domain and the new
   DomainScan record carry the same risk_score and the same risk_level, and
   that level is low for a score under 20, medium under 40, high under 60 and
   critical otherwise. *)
C20_RowAndScanAgree ==
    ret.op = "analyze_domain_risk" =>
        /\ Len(db.scans) >= 1
        /\ Cardinality(DomainIdsNamed(db.domains, ret.request.domain_name)) = 1
        /\ NewScanRecord.domain_id = AnalyzedRow.id
        /\ NewScanRecord.risk_score = AnalyzedRow.risk_score
        /\ NewScanRecord.risk_level = AnalyzedRow.risk_level
        /\ AnalyzedRow.risk_level = ClaimedServiceLevel(AnalyzedRow.risk_score)
        /\ AnalyzedRow.risk_score \in 0..100000000

\* C20: a critical domain analysed after a low one: two rows, two scans.
C20_Witness ==
    /\ ret.op = "analyze_domain_risk"
    /\ ret.request.domain_name = D_secure_paypal
    /\ Len(db.domains) = 2
    /\ Len(db.scans) = 2
    /\ db.domains[1].risk_level = "low"
    /\ AnalyzedRow.risk_level = "critical"
    /\ NewScanRecord.risk_level = "critical"
    /\ NewScanRecord.domain_id = 2

\* The texts of a list of recommendations, without the values put in them.
TextsOf(recommendations) ==
    {recommendations[i][1] : i \in 1..Len(recommendations)}

\* The messages about one factor each, short-domain message included.
SpecificTexts ==
    {"Domain name is unusually long, which may indicate obfuscation",
     "Domain name is very short, potentially indicating typosquatting",
     "High character entropy suggests randomly generated domain, possible botnet C&C",
     "Suspicious TLD commonly used for malicious purposes",
     "Domain contains high-risk keywords"}

(* C21: the recommendations of the service for the factors of a domain are
   never empty; they hold the suspicious-TLD message exactly when the TLD
   factor scored 0.9, the keyword message exactly when a high-risk keyword
   matched, the long-domain message exactly when the length is above
   max_domain_length, the entropy message exactly when the entropy score is
   above 0.7, and the continue-monitoring message exactly when none of the
   specific messages is there. *)
C21_ServiceRecommendations ==
    ret.op = "RiskService._generate_recommendations" =>
        LET Holds(texts, factors) ==
                /\ texts # {}
                /\ ("Suspicious TLD commonly used for malicious purposes" \in texts)
                       <=> (factors.tld_risk.score = 90)
                /\ ("Domain contains high-risk keywords" \in texts)
                       <=> (\E k \in SeqRange(ServiceHighRiskKeywords) :
                                Contains(Lower(ret.domain), k))
                /\ ("Domain name is unusually long, which may indicate obfuscation" \in texts)
                       <=> (Len(ret.domain) > 30)
                /\ ("High character entropy suggests randomly generated domain, possible botnet C&C"
                        \in texts)
                       <=> (factors.entropy_score.score > 7000)
                /\ ("No specific risk indicators detected, but continued monitoring recommended"
                        \in texts)
                       <=> (texts \cap SpecificTexts = {})
        IN  Holds(TextsOf(ret.value), ret.risk_factors)

(* The sum over the five base factors of score times weight of a returned
   calculate_overall_risk result, before the pattern blend and the cap, in
   millionths: scores are in hundredths and weights in units of 10^-4. *)
BaseWeightedSum(call) ==
    LET Sum(c, w) ==
            c.domain_length.score * w.domain_length
            + c.entropy.score * w.entropy_score
            + c.tld_risk.score * w.tld_risk
            + c.keyword_matches.score * w.keyword_matches
            + c.age_days.score * w.age_days
    IN  Sum(call.value.component_scores, call.weights_then)

\* One domain scored by calculate_overall_risk and then by _calculate_risk_score.
ScoredOnBothScales ==
    /\ ret.op = "_calculate_risk_score"
    /\ prev.op = "calculate_overall_risk"
    /\ prev.exc = "none"
    /\ prev.domain = ret.domain
    /\ prev.created_date = NoDate
    /\ prev.weights_then = ServiceConfig.weights

(* C22: for a domain scored on both scales with the same weights and unknown
   age, the 0 to 100 risk_score of the service equals 100 times the weighted
   sum of the five base factor scores of calculate_overall_risk. *)
C22_ScalesAreAffine ==
    ScoredOnBothScales =>
        ret.value.risk_score = 100 * BaseWeightedSum(prev)

(* C23: with any number of scoring calls interleaved on one engine and no
   update_weights, every call returns what the same call returns when run
   alone, and no step changes the weights, the keyword lists or the TLD
   table of the constructed engine. *)
C23_ConcurrentScoringIsSafe ==
    [][/\ \A t \in Threads :
              threads'[t].pc = "done" =>
                  threads'[t].result = calculate_overall_risk(engine', weights',
                                                              threads'[t].domain,
                                                              threads'[t].created_date,
                                                              now')
       /\ engine.state = "ready" => (engine' = engine /\ weights' = weights)]_vars

\* C23: a call has returned while a call on another domain is between two reads.
C23_Witness ==
    /\ threads[1].pc = "done"
    /\ threads[1].result.exc = "none"
    /\ threads[1].domain = D_secure_paypal
    /\ threads[2].pc = "scored"
    /\ threads[2].domain = D_example_com
    /\ Len(threads[2].reads) = 2

(* C24: score_entropy scores the entropy it reports with inclusive band
   edges: 0.9 below 2.0 bits, 0.8 above 4.5, 0.3 from 4.0 to 4.5 inclusive and
   0.1 otherwise; a label of 16 characters each occurring once, 4.0 bits,
   scores 0.3. *)
C24_EntropyBandsInclusive ==
    ret.op = "score_entropy" =>
        LET Claimed(entropy) ==
                IF entropy < 2000000 THEN 90
                ELSE IF entropy > 4500000 THEN 80
                ELSE IF entropy >= 4000000 THEN 30
                ELSE 10
        IN  ret.value.score = Claimed(ret.value.details.entropy)

(* C25: for a domain whose leftmost label is empty, score_entropy reports
   entropy 0.0 and score 0.0. *)
C25_EmptyLabelScoresZero ==
    (ret.op = "score_entropy" /\ FirstLabel(ret.domain) = <<>>) =>
        /\ ret.value.details.entropy = 0
        /\ ret.value.score = 0

(* C26: the TLD in the detail record of score_tld is a dot followed by the
   lower-cased text after the last dot of the domain, and the empty string
   when the domain has no dot. *)
C26_TldExtracted ==
    ret.op = "score_tld" =>
        ret.value.details.tld =
            (IF DotPositions(ret.domain) = {}
             THEN <<>>
             ELSE <<".">> \o Lower(SubSeq(ret.domain,
                                          SetMax(DotPositions(ret.domain)) + 1,
                                          Len(ret.domain))))

(* The aggregate the documentation gives for a returned result: 0.85 times the
   sum of score times weight over the five base factors plus 0.15 times the
   pattern score, a weight being the live entry or its documented default, in
   units of 10^-8. *)
DocumentedAggregate(call) ==
    LET Blend(c, w, pattern) ==
            85 * (c.domain_length.score * (IF "domain_length" \in DOMAIN w
                                           THEN w.domain_length ELSE 1500)
                  + c.entropy.score * (IF "entropy_score" \in DOMAIN w
                                       THEN w.entropy_score ELSE 2500)
                  + c.tld_risk.score * (IF "tld_risk" \in DOMAIN w
                                        THEN w.tld_risk ELSE 2000)
                  + c.keyword_matches.score * (IF "keyword_matches" \in DOMAIN w
                                               THEN w.keyword_matches ELSE 3000)
                  + c.age_days.score * (IF "age_days" \in DOMAIN w
                                        THEN w.age_days ELSE 1000))
            + 15 * pattern.score * 10000
    IN  Blend(call.value.component_scores, call.weights_then, call.value.ml_pattern_score[1])

(* C27: every result of calculate_overall_risk carries an ml_pattern_score, and
   its overall_score is the documented aggregate (0.85 times the weighted sum
   of the five base factors, live weight or documented default, plus 0.15
   times the pattern score), capped at 0.99 and rounded to four decimals. *)
C27_BlendedAggregate ==
    (ret.op = "calculate_overall_risk" /\ ret.exc = "none") =>
        /\ ret.value.ml_pattern_score # <<>>
        /\ ret.value.overall_score =
               RoundHalfEven(IF DocumentedAggregate(ret) > 99000000
                             THEN 99000000
                             ELSE DocumentedAggregate(ret),
                             10000)

\* C27: a result computed with a weight mapping that lacks the age_days key.
C27_Witness ==
    /\ ret.op = "calculate_overall_risk"
    /\ ret.exc = "none"
    /\ "age_days" \notin DOMAIN ret.weights_then
    /\ ret.domain = D_secure_paypal
    /\ ret.created_date = <<0>>
    /\ ret.value.component_scores.age_days.score > 0

\* The factors whose weights the updates during the call of thread t changed.
ChangedDuringCall(t) ==
    {i \in 1..5 : WeightRead(threads[t].weights_at_call, i) # WeightRead(weights, i)}

\* The overall_score calculate_overall_risk gives the call of thread t under w.
ScoreUnder(t, w) ==
    calculate_overall_risk(engine, w, threads[t].domain, threads[t].created_date,
                           now).value.overall_score

(* C28: calculate_overall_risk takes no lock and no snapshot of the weights:
   each of its five reads returns the entry the dict holds at the time of that
   read, whatever update_weights has done since the call began. *)
C28_ReadsAreLive ==
    [][\A t \in Threads :
           Len(threads'[t].reads) = Len(threads[t].reads) + 1 =>
               threads'[t].reads[Len(threads'[t].reads)] =
                   (IF WeightKeys[Len(threads'[t].reads)] \in DOMAIN weights
                    THEN weights[WeightKeys[Len(threads'[t].reads)]]
                    ELSE WeightDefaults[Len(threads'[t].reads)])]_vars

(* C28: a scoring call has returned an overall_score that is neither the score
   under the weights as of its start nor the score under the weights after the
   update of several weights that ran during it. *)
C28_Witness ==
    /\ threads[1].pc = "done"
    /\ threads[1].result.exc = "none"
    /\ Cardinality(ChangedDuringCall(1)) >= 2
    /\ \E i \in ChangedDuringCall(1) :
           threads[1].reads[i] = WeightRead(threads[1].weights_at_call, i)
    /\ \E i \in ChangedDuringCall(1) :
           threads[1].reads[i] = WeightRead(weights, i)
    /\ threads[1].result.value.overall_score # ScoreUnder(1, threads[1].weights_at_call)
    /\ threads[1].result.value.overall_score # ScoreUnder(1, weights)

\* the five base factor names
BaseKeys ==
    {"domain_length", "entropy_score", "tld_risk", "keyword_matches", "age_days"}

\* the entries of the weight mapping w under the base factor names
BaseEntries(w) ==
    [k \in DOMAIN w \cap BaseKeys |-> w[k]]

(* Two successive calls with the same arguments at the same time, between which
   the weight mapping gained keys other than the base factor names and
   nothing else changed. *)
RescoredAfterExtraKeys ==
    /\ prev.op = "calculate_overall_risk"
    /\ prev.exc = "none"
    /\ IsScore
    /\ prev.domain = ret.domain
    /\ prev.created_date = ret.created_date
    /\ prev.utcnow = ret.utcnow
    /\ DOMAIN prev.weights_then \subseteq DOMAIN ret.weights_then
    /\ DOMAIN ret.weights_then \ DOMAIN prev.weights_then # {}
    /\ (DOMAIN ret.weights_then \ DOMAIN prev.weights_then) \cap BaseKeys = {}
    /\ \A k \in DOMAIN prev.weights_then : ret.weights_then[k] = prev.weights_then[k]

(* C29: update_weights with keys other than the five base factor names leaves
   the five base weights as they were, and a domain scored before and after it
   gets the same overall_score, risk_level and component scores; the weights
   mapping the result reports has the extra keys. *)
C29_ExtraKeysAreInert ==
    /\ [][(engine.state = "ready" /\ DOMAIN weights' \ DOMAIN weights # {}
              /\ (DOMAIN weights' \ DOMAIN weights) \cap BaseKeys = {})
            => BaseEntries(weights') = BaseEntries(weights)]_vars
    /\ [](RescoredAfterExtraKeys =>
              /\ ret.value.overall_score = prev.value.overall_score
              /\ ret.value.risk_level = prev.value.risk_level
              /\ ret.value.component_scores = prev.value.component_scores
              /\ ret.value.ml_pattern_score = prev.value.ml_pattern_score
              /\ DOMAIN ret.weights_then \subseteq DOMAIN Deref(ret.value.weights))

\* C29: a domain scored before and after update_weights({"ml_pattern": 0.5}).
C29_Witness ==
    /\ RescoredAfterExtraKeys
    /\ "ml_pattern" \notin DOMAIN prev.weights_then
    /\ "ml_pattern" \in DOMAIN ret.weights_then
    /\ ret.weights_then.ml_pattern = 5000
    /\ Deref(ret.value.weights).ml_pattern = 5000
    /\ ret.domain = D_secure_paypal
    /\ ret.value.overall_score = prev.value.overall_score

(* C30: batch_score_domains with a created_dates list that is not empty and
   shorter than domains raises IndexError and returns nothing; with an empty
   created_dates list it returns one result per domain, each the result of
   calculate_overall_risk with no creation date. *)
C30_ShortDatesFail ==
    (ret.op = "batch_score_domains" /\ ret.created_dates # NoDates) =>
        /\ (Len(ret.created_dates[1]) > 0 /\ Len(ret.created_dates[1]) < Len(ret.domains))
               => (ret.exc = "IndexError" /\ ret.value = <<>>)
        /\ ret.created_dates[1] = <<>>
               => /\ ret.exc = "none"
                  /\ Len(ret.value) = Len(ret.domains)
                  /\ \A i \in 1..Len(ret.domains) :
                         /\ ret.value[i].component_scores.age_days.details.age_days = <<>>
                         /\ SansTimestamp(ret.value[i])
                            = SansTimestamp(calculate_overall_risk(
                                                engine, ret.weights_then, ret.domains[i],
                                                NoDate, ret.utcnow).value)

\* C30: two domains and one creation date: the call has raised IndexError.
C30_Witness ==
    /\ ret.op = "batch_score_domains"
    /\ Len(ret.domains) = 2
    /\ ret.created_dates # NoDates
    /\ Len(ret.created_dates[1]) = 1
    /\ ret.exc = "IndexError"
    /\ ret.value = <<>>

=============================================================================
